---- MODULE Spec2Model ----
(***************************************************************************)
(* Windowed reductions of jax/_src/lax/windowed_reductions.py:             *)
(* reduce_window and its sum/max/min specialisations, select_and_scatter,  *)
(* select_and_gather_add, their shape rules and transpose rules.           *)
(*                                                                         *)
(* Every operation of the module is a pure function of its arguments, so   *)
(* the state is one invocation: `call` holds the arguments of the call     *)
(* being made, `ret` what the rules have returned so far and `pc` how far  *)
(* the call has got.  Arrays are rank-1 (a sequence of elements); shapes   *)
(* and window geometry are sequences with one entry per dimension.         *)
(* Floating-point elements are bit patterns of an nbits-wide IEEE-style    *)
(* format; integer elements are integers.                                  *)
(***************************************************************************)
EXTENDS Integers, Sequences, FiniteSets, TLC

VARIABLES pc, call, ret

vars == <<pc, call, ret>>

(***************************************************************************)
(* Bounds of the explored inputs.                                          *)
(***************************************************************************)
MaxExtent == 4
MaxWindow == 2
MaxStride == 2
MaxPad == 1
NegPad == 1
MaxDilation == 2

\* Width of the modelled floating-point format and of its exponent field
\* (finfo(dtype).bits and finfo(dtype).nexp of the operand dtype).
nbits == 4
nexp == 2

(***************************************************************************)
(* Results: a returned value or a raised exception.                        *)
(***************************************************************************)
Ok(v) == [err |-> "none", val |-> v]
Raise(e) == [err |-> e, val |-> <<>>]
IsOk(r) == r.err = "none"

NoResult == [err |-> "pending", val |-> <<>>]

(***************************************************************************)
(* Arrays: a dtype and rank-1 data; an array of another rank carries its   *)
(* shape.                                                                  *)
(***************************************************************************)
\* core.ShapedArray: the abstract value of an array.
ShapedArray(shape, dtype) == [shape |-> shape, dtype |-> dtype]

Array(dtype, data) == [dtype |-> dtype, data |-> data]
ShapeOf(a) == IF "shape" \in DOMAIN a THEN a.shape ELSE <<Len(a.data)>>

(***************************************************************************)
(* Shape arithmetic.                                                       *)
(***************************************************************************)

\* core.dilate_dim: 0 stays 0, n > 0 becomes 1 + dilation * (n - 1).
dilate_dim(d, dilation) == IF d = 0 THEN 0 ELSE 1 + dilation * (d - 1)

\* lax._dilate_shape, per dimension.
_dilate_shape(shape, dilation) ==
  [i \in 1..Len(shape) |-> dilate_dim(shape[i], dilation[i])]

\* core.sum_shapes of three shapes.
sum_shapes(a, b, c) == [i \in 1..Len(a) |-> a[i] + b[i] + c[i]]

\* core.stride_dim: floor((d - window) / stride) + 1.
stride_dim(d, window_size, window_stride) ==
  ((d - window_size) \div window_stride) + 1

\* core.stride_shape: a window larger than the (padded) extent is an error.
stride_shape(shape, window_size, window_stride) ==
  IF \E i \in 1..Len(shape) : window_size[i] > shape[i]
  THEN Raise("TypeError")
  ELSE Ok([i \in 1..Len(shape) |->
             stride_dim(shape[i], window_size[i], window_stride[i])])

\* util.unzip2(padding)
unzip_lo(padding) == [i \in 1..Len(padding) |-> padding[i][1]]
unzip_hi(padding) == [i \in 1..Len(padding) |-> padding[i][2]]

\* A plausible slip: the window dilation is not applied.
reduce_window_shape_tuple_nowd(operand_shape, window_dimensions, window_strides, padding, base_dilation, window_dilation) ==
  LET dilated == _dilate_shape(operand_shape, base_dilation)
      operand_padded == sum_shapes(dilated, unzip_lo(padding), unzip_hi(padding))
  IN stride_shape(operand_padded, window_dimensions, window_strides)

\* A plausible slip: the base dilation is not applied.
reduce_window_shape_tuple_nobd(operand_shape, window_dimensions, window_strides, padding, base_dilation, window_dilation) ==
  LET window == _dilate_shape(window_dimensions, window_dilation)
      operand_padded == sum_shapes(operand_shape, unzip_lo(padding), unzip_hi(padding))
  IN stride_shape(operand_padded, window, window_strides)

reduce_window_shape_tuple(operand_shape, window_dimensions, window_strides, padding, base_dilation, window_dilation) ==
  LET dilated == _dilate_shape(operand_shape, base_dilation)
      window == _dilate_shape(window_dimensions, window_dilation)
      operand_padded == sum_shapes(dilated, unzip_lo(padding), unzip_hi(padding))
  IN stride_shape(operand_padded, window, window_strides)

\* lax._check_shapelike: every entry is >= 0, and >= 1 with non_zero_shape.
_check_shapelike(obj, non_zero_shape) ==
  \A i \in 1..Len(obj) : obj[i] >= (IF non_zero_shape THEN 1 ELSE 0)

\* A plausible slip: window_dimensions is checked without non_zero_shape.
_common_reduce_window_shape_rule_zero_window(operand_shape, window_dimensions, window_strides, padding, base_dilation, window_dilation) ==
  IF ~_check_shapelike(window_dimensions, FALSE) THEN Raise("TypeError")
  ELSE IF ~_check_shapelike(window_strides, TRUE) THEN Raise("TypeError")
  ELSE IF ~_check_shapelike(base_dilation, FALSE) THEN Raise("TypeError")
  ELSE IF ~_check_shapelike(window_dilation, FALSE) THEN Raise("TypeError")
  ELSE IF Len(operand_shape) # Len(window_dimensions) THEN Raise("TypeError")
  ELSE IF Len(window_strides) # Len(window_dimensions) THEN Raise("TypeError")
  ELSE IF Len(base_dilation) # Len(window_dimensions) THEN Raise("TypeError")
  ELSE IF Len(window_dilation) # Len(window_dimensions) THEN Raise("TypeError")
  ELSE reduce_window_shape_tuple(operand_shape, window_dimensions,
                                 window_strides, padding, base_dilation,
                                 window_dilation)

_common_reduce_window_shape_rule(operand_shape, window_dimensions, window_strides, padding, base_dilation, window_dilation) ==
  IF ~_check_shapelike(window_dimensions, TRUE) THEN Raise("TypeError")
  ELSE IF ~_check_shapelike(window_strides, TRUE) THEN Raise("TypeError")
  ELSE IF ~_check_shapelike(base_dilation, FALSE) THEN Raise("TypeError")
  ELSE IF ~_check_shapelike(window_dilation, FALSE) THEN Raise("TypeError")
  ELSE IF Len(operand_shape) # Len(window_dimensions) THEN Raise("TypeError")
  ELSE IF Len(window_strides) # Len(window_dimensions) THEN Raise("TypeError")
  ELSE IF Len(base_dilation) # Len(window_dimensions) THEN Raise("TypeError")
  ELSE IF Len(window_dilation) # Len(window_dimensions) THEN Raise("TypeError")
  ELSE reduce_window_shape_tuple(operand_shape, window_dimensions,
                                 window_strides, padding, base_dilation,
                                 window_dilation)

\* dtypes.issubdtype(dtype, np.number)
IsNumberDtype(dtype) == dtype \in {"int32", "float"}

_reduce_window_sum_shape_rule(operand, window_dimensions, window_strides, padding, base_dilation, window_dilation) ==
  IF ~IsNumberDtype(operand.dtype) THEN Raise("TypeError")
  ELSE _common_reduce_window_shape_rule(ShapeOf(operand), window_dimensions,
                                        window_strides, padding,
                                        base_dilation, window_dilation)

(***************************************************************************)
(* Floating-point elements: bit patterns 0 .. 2^nbits - 1 with one sign    *)
(* bit, nexp exponent bits and nmant mantissa bits, IEEE style (all-ones   *)
(* exponent is inf or NaN, zero exponent is zero or subnormal).            *)
(***************************************************************************)
nmant == nbits - nexp - 1
Words == 0 .. (2^nbits - 1)
FloatBits(sign, e, m) == sign * 2^(nbits - 1) + e * 2^nmant + m
SignOf(b) == b \div 2^(nbits - 1)
MagOf(b) == b % 2^(nbits - 1)
ExpOf(b) == MagOf(b) \div 2^nmant
ManOf(b) == MagOf(b) % 2^nmant
ExpMax == 2^nexp - 1
IsNaN(b) == ExpOf(b) = ExpMax /\ ManOf(b) # 0
IsInf(b) == ExpOf(b) = ExpMax /\ ManOf(b) = 0
PosZero == FloatBits(0, 0, 0)
NegZero == FloatBits(1, 0, 0)
PosInf == FloatBits(0, ExpMax, 0)
NegInf == FloatBits(1, ExpMax, 0)
PosOne == FloatBits(0, 1, 0)
NegOne == FloatBits(1, 1, 0)
QNaN == FloatBits(0, ExpMax, 2^(nmant - 1))

\* The value of a non-NaN pattern on a scale that keeps the order of the
\* reals: patterns of one sign are ordered like their magnitude bits.
OrdOf(b) == IF SignOf(b) = 0 THEN MagOf(b) ELSE 0 - MagOf(b)

\* Floating-point comparisons (false when an argument is NaN).
FloatGE(a, b) == ~IsNaN(a) /\ ~IsNaN(b) /\ OrdOf(a) >= OrdOf(b)
FloatLE(a, b) == ~IsNaN(a) /\ ~IsNaN(b) /\ OrdOf(a) =< OrdOf(b)
FloatEQ(a, b) == ~IsNaN(a) /\ ~IsNaN(b) /\ OrdOf(a) = OrdOf(b)

\* The magnitude of a pattern in units of the smallest subnormal; inf counts
\* as the start of the binade after the largest finite one (for rounding).
UnitsOf(b) ==
  IF ExpOf(b) = 0 THEN ManOf(b)
  ELSE (2^nmant + (IF IsInf(b) THEN 0 ELSE ManOf(b))) * 2^(ExpOf(b) - 1)
ValOf(b) == IF SignOf(b) = 0 THEN UnitsOf(b) ELSE 0 - UnitsOf(b)
Abs(i) == IF i < 0 THEN 0 - i ELSE i

\* Round a non-zero exact value to the nearest pattern, ties to even.
RoundToFloat(v) ==
  LET mags == 0 .. PosInf
      dist(p) == Abs(UnitsOf(p) - Abs(v))
      best == {p \in mags : \A q \in mags : dist(p) =< dist(q)}
      mag == CHOOSE p \in best : Cardinality(best) = 1 \/ p % 2 = 0
  IN IF v < 0 THEN 2^(nbits - 1) + mag ELSE mag

\* IEEE addition, round to nearest even.
FloatAdd(a, b) ==
  IF IsNaN(a) THEN a
  ELSE IF IsNaN(b) THEN b
  ELSE IF IsInf(a) /\ IsInf(b) THEN (IF a = b THEN a ELSE QNaN)
  ELSE IF IsInf(a) THEN a
  ELSE IF IsInf(b) THEN b
  ELSE IF MagOf(a) = 0 /\ MagOf(b) # 0 THEN b
  ELSE IF MagOf(b) = 0 /\ MagOf(a) # 0 THEN a
  ELSE LET v == ValOf(a) + ValOf(b)
       IN IF v # 0 THEN RoundToFloat(v)
          ELSE IF SignOf(a) = 1 /\ SignOf(b) = 1 THEN NegZero ELSE PosZero

\* Floating-point maximum and minimum (NaN propagates).
FloatMax(a, b) ==
  IF IsNaN(a) THEN a ELSE IF IsNaN(b) THEN b
  ELSE IF FloatGE(a, b) THEN a ELSE b
FloatMin(a, b) ==
  IF IsNaN(a) THEN a ELSE IF IsNaN(b) THEN b
  ELSE IF FloatLE(a, b) THEN a ELSE b

(***************************************************************************)
(* Element-wise operations by dtype.                                       *)
(***************************************************************************)
\* iinfo(int32).min and .max; bool elements are 0 (False) and 1 (True).
IntMin == 0 - 2147483647 - 1
IntMax == 2147483647

\* Two's-complement addition of 32-bit integers.
AddInt32(a, b) ==
  IF a > 0 /\ b > 0 /\ a > IntMax - b THEN (a + IntMin) + (b + IntMin)
  ELSE IF a < 0 /\ b < 0 /\ a < IntMin - b THEN (a - IntMin) + (b - IntMin)
  ELSE a + b

\* mhlo.AddOp
AddOp(dtype, a, b) ==
  IF dtype = "float" THEN FloatAdd(a, b) ELSE AddInt32(a, b)
\* mlir.max_mhlo, mlir.min_mhlo
max_mhlo(dtype, a, b) ==
  IF dtype = "float" THEN FloatMax(a, b) ELSE IF a >= b THEN a ELSE b
min_mhlo(dtype, a, b) ==
  IF dtype = "float" THEN FloatMin(a, b) ELSE IF a =< b THEN a ELSE b

\* lax._get_max_identity, lax._get_min_identity
_get_max_identity(dtype) ==
  IF dtype = "float" THEN NegInf ELSE IF dtype = "int32" THEN IntMin ELSE 0
_get_min_identity(dtype) ==
  IF dtype = "float" THEN PosInf ELSE IF dtype = "int32" THEN IntMax ELSE 1
\* lax._zero
_zero(dtype) ==
  IF dtype = "float" THEN PosZero ELSE 0

(***************************************************************************)
(* Array operations of the backend (rank 1).                               *)
(***************************************************************************)

\* The order in which the backend's windowed reduction applies the reducer to
\* its accumulator and the next window element is implementation-defined:
\* reducer(acc, element) or reducer(element, acc).
XlaOrders == {"acc_first", "acc_last"}

\* lax.pad: interior padding between the elements first, then lo/hi padding
\* at the edges; negative edge padding removes elements.
lax_pad(operand, padding_value, padding_config) ==
  LET lo == padding_config[1][1]
      hi == padding_config[1][2]
      interior == padding_config[1][3]
      dilated == dilate_dim(Len(operand.data), interior + 1)
      out_len == lo + hi + dilated
  IN IF interior < 0 \/ out_len < 0 THEN Raise("ValueError")
     ELSE Ok(Array(operand.dtype,
            [q \in 1..out_len |->
               LET p == q - 1 - lo
               IN IF p >= 0 /\ p < dilated /\ p % (interior + 1) = 0
                  THEN operand.data[(p \div (interior + 1)) + 1]
                  ELSE padding_value]))

\* slicing.slice(operand, start, limit, strides)
lax_slice(operand, start, limit, stride) ==
  LET n == IF limit[1] > start[1]
           THEN ((limit[1] - start[1] - 1) \div stride[1]) + 1 ELSE 0
  IN IF start[1] < 0 \/ limit[1] > Len(operand.data) \/ start[1] > limit[1]
        \/ stride[1] < 1
     THEN Raise("TypeError")
     ELSE Ok(Array(operand.dtype,
            [q \in 1..n |-> operand.data[start[1] + (q - 1) * stride[1] + 1]]))

\* mlir.compare_mhlo(x, y, which) on floats, and lax.ge_p / lax.le_p
compare_mhlo(x, y, which) ==
  IF which = "GE" THEN FloatGE(x, y) ELSE FloatLE(x, y)
select_prim_bind(select_prim, x, y) ==
  compare_mhlo(x, y, IF select_prim = "ge_p" THEN "GE" ELSE "LE")

(***************************************************************************)
(* The wide-word packing of _select_and_gather_add_lowering: two nbits-bit *)
(* patterns in one unsigned word of 2 * nbits bits.                        *)
(***************************************************************************)
DoubleWords == 0 .. (2^(2 * nbits) - 1)

\* ShiftLeftOp and ShiftRightLogicalOp on double words, OrOp of a double word
\* with a zero-extended word, ConvertOp from double word to word.
ShiftLeft(a, k) == (a * 2^k) % 2^(2 * nbits)
ShiftRightLogical(a, k) == a \div 2^k
BitOr(a, b) ==
  LET bit(x, i) == (x \div 2^i) % 2
      or[i \in 0..(2 * nbits)] ==
        IF i = 0 THEN 0
        ELSE or[i - 1]
             + 2^(i - 1) * (IF bit(a, i - 1) = 1 \/ bit(b, i - 1) = 1
                            THEN 1 ELSE 0)
  IN or[2 * nbits]
ConvertToWord(t) == t % 2^nbits

\* A plausible slip: the key is shifted by one bit too few.
pack_short(a, b) == BitOr(ShiftLeft(a, nbits - 1), b)

pack(a, b) == BitOr(ShiftLeft(a, nbits), b)
fst(t) == ConvertToWord(ShiftRightLogical(t, nbits))
snd(t) == ConvertToWord(t)

(***************************************************************************)
(* mhlo.ReduceWindowOp and the reducer regions the lowerings build.        *)
(***************************************************************************)

\* A reducer region: the name of its body and what the body is closed over.
Region(body, dtype, select_prim) ==
  [body |-> body, dtype |-> dtype, select_prim |-> select_prim]

\* The reducer of _select_and_gather_add_using_variadic_reducewindow on
\* (key, value) pairs.
variadic_reducer(select_prim, x, y) ==
  LET kx == x[1]
      vx == x[2]
      ky == y[1]
      vy == y[2]
      which == select_prim_bind(select_prim, kx, ky)
  IN <<IF which THEN kx ELSE ky, IF which THEN vx ELSE vy>>

\* A plausible slip: the region compares the packed words themselves.
packed_reducer_words(select_prim, x, y) ==
  IF (IF select_prim = "ge_p" THEN x >= y ELSE x =< y) THEN x ELSE y

\* The reducer region of _select_and_gather_add_lowering on packed words.
packed_reducer(select_prim, x, y) ==
  LET which == IF select_prim = "ge_p" THEN "GE" ELSE "LE"
  IN IF compare_mhlo(fst(x), fst(y), which) THEN x ELSE y

\* The value a region returns for its two arguments. The jaxpr of lax.add,
\* lax.max and lax.min is the one primitive, lowered to the same element
\* operation; a generic region works on tuples of scalars.
ApplyRegion(reducer, x, y) ==
  CASE reducer.body = "AddOp" -> AddOp(reducer.dtype, x, y)
    [] reducer.body = "max_mhlo" -> max_mhlo(reducer.dtype, x, y)
    [] reducer.body = "min_mhlo" -> min_mhlo(reducer.dtype, x, y)
    [] reducer.body = "lax.add" -> <<AddOp(reducer.dtype, x[1], y[1])>>
    [] reducer.body = "lax.max" -> <<max_mhlo(reducer.dtype, x[1], y[1])>>
    [] reducer.body = "lax.min" -> <<min_mhlo(reducer.dtype, x[1], y[1])>>
    [] reducer.body = "variadic_reducer"
         -> variadic_reducer(reducer.select_prim, x, y)
    [] reducer.body = "packed_reducer"
         -> packed_reducer(reducer.select_prim, x, y)

\* mhlo.ReduceWindowOp: element j of the output folds the reducer over the
\* window at offset j * stride of the base-dilated, padded operand, starting
\* from init_value; the slots added by padding and by base dilation hold
\* init_value.
ReduceWindowOp(out_len, operand, init_value, reducer, window_dimensions, window_strides, base_dilations, window_dilations, padding) ==
  LET lo == padding[1][1]
      bd == base_dilations[1]
      dilated == dilate_dim(Len(operand), bd)
      elem(q) == LET p == q - lo
                 IN IF p >= 0 /\ p < dilated /\ p % bd = 0
                    THEN operand[(p \div bd) + 1]
                    ELSE init_value
      window(j) ==
        LET acc[k \in 0..window_dimensions[1]] ==
              IF k = 0 THEN init_value
              ELSE LET e == elem((j - 1) * window_strides[1]
                                 + (k - 1) * window_dilations[1])
                   IN IF call.xla_order = "acc_first"
                      THEN ApplyRegion(reducer, acc[k - 1], e)
                      ELSE ApplyRegion(reducer, e, acc[k - 1])
        IN acc[window_dimensions[1]]
  IN [j \in 1..out_len |-> window(j)]

(***************************************************************************)
(* reduce_window_sum / max / min: lowering, primitive, transpose rule.     *)
(***************************************************************************)

\* The init_value argument of the three registered lowerings.
LoweringInit(reduce_op, dtype) ==
  CASE reduce_op = "AddOp" -> _zero(dtype)
    [] reduce_op = "min_mhlo" -> _get_min_identity(dtype)
    [] reduce_op = "max_mhlo" -> _get_max_identity(dtype)

_reduce_window_lower(reduce_op, aval_out_shape, operand, window_dimensions, window_strides, padding, base_dilation, window_dilation) ==
  Array(operand.dtype,
        ReduceWindowOp(aval_out_shape[1], operand.data,
                       LoweringInit(reduce_op, operand.dtype),
                       Region(reduce_op, operand.dtype, "none"),
                       window_dimensions, window_strides, base_dilation,
                       window_dilation, padding))

\* reduce_window_sum_p.bind: the shape rule, then the lowering.
_reduce_window_sum(operand, window_dimensions, window_strides, padding, base_dilation, window_dilation) ==
  LET shape == _reduce_window_sum_shape_rule(operand, window_dimensions,
                 window_strides, padding, base_dilation, window_dilation)
  IN IF ~IsOk(shape) THEN shape
     ELSE Ok(_reduce_window_lower("AddOp", shape.val, operand,
               window_dimensions, window_strides, padding, base_dilation,
               window_dilation))

\* reduce_window_max_p.bind, reduce_window_min_p.bind
_reduce_window_max(operand, window_dimensions, window_strides, padding, base_dilation, window_dilation) ==
  LET shape == _common_reduce_window_shape_rule(ShapeOf(operand),
                 window_dimensions, window_strides, padding, base_dilation,
                 window_dilation)
  IN IF ~IsOk(shape) THEN shape
     ELSE Ok(_reduce_window_lower("max_mhlo", shape.val, operand,
               window_dimensions, window_strides, padding, base_dilation,
               window_dilation))
_reduce_window_min(operand, window_dimensions, window_strides, padding, base_dilation, window_dilation) ==
  LET shape == _common_reduce_window_shape_rule(ShapeOf(operand),
                 window_dimensions, window_strides, padding, base_dilation,
                 window_dilation)
  IN IF ~IsOk(shape) THEN shape
     ELSE Ok(_reduce_window_lower("min_mhlo", shape.val, operand,
               window_dimensions, window_strides, padding, base_dilation,
               window_dilation))

\* convolution._conv_general_vjp_lhs_padding
_conv_general_vjp_lhs_padding(in_shape, window_dimensions, window_strides, out_shape, padding, lhs_dilation, rhs_dilation) ==
  LET lhs_dilated_shape == _dilate_shape(in_shape, lhs_dilation)
      rhs_dilated_shape == _dilate_shape(window_dimensions, rhs_dilation)
      out_dilated_shape == _dilate_shape(out_shape, window_strides)
      pad_before == [i \in 1..Len(in_shape) |->
                       rhs_dilated_shape[i] - padding[i][1] - 1]
      pad_after == [i \in 1..Len(in_shape) |->
                      lhs_dilated_shape[i] + rhs_dilated_shape[i] - 1
                      - out_dilated_shape[i] - pad_before[i]]
  IN [i \in 1..Len(in_shape) |-> <<pad_before[i], pad_after[i]>>]

Ones(n) == [i \in 1..n |-> 1]
ZeroPads(n) == [i \in 1..n |-> <<0, 0>>]

\* A plausible slip: the low and high padding of the cotangent are swapped.
_reduce_window_sum_transpose_rule_swapped(cotangent, input_shape, window_dimensions, window_strides, padding, base_dilation, window_dilation) ==
  LET pads == _conv_general_vjp_lhs_padding(input_shape, window_dimensions,
                window_strides, ShapeOf(cotangent), padding, base_dilation,
                window_dilation)
      padding_config == [i \in 1..Len(input_shape) |->
                           <<pads[i][2], pads[i][1], window_strides[i] - 1>>]
      pad_cotangent == lax_pad(cotangent, _zero(cotangent.dtype), padding_config)
  IN IF ~IsOk(pad_cotangent) THEN pad_cotangent
     ELSE LET result == _reduce_window_sum(pad_cotangent.val,
                          window_dimensions, base_dilation,
                          ZeroPads(Len(input_shape)), Ones(Len(input_shape)),
                          window_dilation)
          IN IF ~IsOk(result) THEN result
             ELSE IF ShapeOf(result.val) # input_shape
                  THEN Raise("AssertionError")
                  ELSE result

\* A plausible slip: the interior padding is the stride, not stride - 1.
_reduce_window_sum_transpose_rule_interior(cotangent, input_shape, window_dimensions, window_strides, padding, base_dilation, window_dilation) ==
  LET pads == _conv_general_vjp_lhs_padding(input_shape, window_dimensions,
                window_strides, ShapeOf(cotangent), padding, base_dilation,
                window_dilation)
      padding_config == [i \in 1..Len(input_shape) |->
                           <<pads[i][1], pads[i][2], window_strides[i]>>]
      pad_cotangent == lax_pad(cotangent, _zero(cotangent.dtype), padding_config)
  IN IF ~IsOk(pad_cotangent) THEN pad_cotangent
     ELSE LET result == _reduce_window_sum(pad_cotangent.val,
                          window_dimensions, base_dilation,
                          ZeroPads(Len(input_shape)), Ones(Len(input_shape)),
                          window_dilation)
          IN IF ~IsOk(result) THEN result
             ELSE IF ShapeOf(result.val) # input_shape
                  THEN Raise("AssertionError")
                  ELSE result

\* input_shape is operand.aval.shape of the undefined primal.
_reduce_window_sum_transpose_rule(cotangent, input_shape, window_dimensions, window_strides, padding, base_dilation, window_dilation) ==
  LET pads == _conv_general_vjp_lhs_padding(input_shape, window_dimensions,
                window_strides, ShapeOf(cotangent), padding, base_dilation,
                window_dilation)
      padding_config == [i \in 1..Len(input_shape) |->
                           <<pads[i][1], pads[i][2], window_strides[i] - 1>>]
      pad_cotangent == lax_pad(cotangent, _zero(cotangent.dtype), padding_config)
  IN IF ~IsOk(pad_cotangent) THEN pad_cotangent
     ELSE LET result == _reduce_window_sum(pad_cotangent.val,
                          window_dimensions, base_dilation,
                          ZeroPads(Len(input_shape)), Ones(Len(input_shape)),
                          window_dilation)
          IN IF ~IsOk(result) THEN result
             ELSE IF ShapeOf(result.val) # input_shape
                  THEN Raise("AssertionError")
                  ELSE result

(***************************************************************************)
(* Specification SpecSum: one reduce_window_sum invocation on an int32     *)
(* operand, followed by the transpose rule applied to a cotangent of the   *)
(* output's shape.                                                         *)
(***************************************************************************)

\* Operands: reduce_window_sum and its transpose are linear, so operands
\* whose elements are distinct powers of ten, and their negations, tell
\* every routing of elements apart.
SumOperands ==
  UNION {{Array("int32", [i \in 1..n |-> 10^(i - 1)]),
          Array("int32", [i \in 1..n |-> 0 - i])} : n \in 0..MaxExtent}

\* Cotangents of extent m: the unit vectors and a ramp.
Cotangents(m) ==
  {Array("int32", [i \in 1..m |-> IF i = j THEN 1 ELSE 0]) : j \in 1..m}
    \cup {Array("int32", [i \in 1..m |-> i])}

PadRange == (0 - NegPad)..MaxPad

SumCalls ==
  {[operand |-> x, window_dimensions |-> <<w>>, window_strides |-> <<s>>,
    padding |-> <<<<lo, hi>>>>, base_dilation |-> <<bd>>,
    window_dilation |-> <<wd>>, xla_order |-> "acc_first"] :
     x \in SumOperands, w \in 1..MaxWindow, s \in 1..MaxStride,
     lo \in PadRange, hi \in PadRange,
     bd \in 1..MaxDilation, wd \in 1..MaxDilation}

SumInit ==
  /\ pc = "bind"
  /\ call \in SumCalls
  /\ ret = [out_shape |-> NoResult, out |-> NoResult,
            cotangent |-> <<>>, operand_ct |-> NoResult]

\* reduce_window_sum_p.bind(operand, ...): abstract evaluation and lowering.
BindSum ==
  /\ pc = "bind"
  /\ ret' = [ret EXCEPT
       !.out_shape = reduce_window_shape_tuple(ShapeOf(call.operand),
                       call.window_dimensions, call.window_strides,
                       call.padding, call.base_dilation, call.window_dilation),
       !.out = _reduce_window_sum(call.operand, call.window_dimensions,
                 call.window_strides, call.padding, call.base_dilation,
                 call.window_dilation)]
  /\ pc' = "bound"
  /\ UNCHANGED call

\* Reverse mode: the transpose rule on a cotangent of the output's shape.
TransposeSum ==
  /\ pc = "bound"
  /\ IsOk(ret.out)
  /\ \E c \in Cotangents(Len(ret.out.val.data)) :
       ret' = [ret EXCEPT
         !.cotangent = c,
         !.operand_ct = _reduce_window_sum_transpose_rule(c,
                          ShapeOf(call.operand), call.window_dimensions,
                          call.window_strides, call.padding,
                          call.base_dilation, call.window_dilation)]
  /\ pc' = "transposed"
  /\ UNCHANGED call

SumNext == BindSum \/ TransposeSum

SpecSum == SumInit /\ [][SumNext]_vars

(***************************************************************************)
(* Properties of the shape rule (checked under SpecSum).                   *)
(***************************************************************************)
Rank == Len(call.window_dimensions)
DilatedExtent(i) == dilate_dim(ShapeOf(call.operand)[i], call.base_dilation[i])
DilatedWindow(i) == dilate_dim(call.window_dimensions[i], call.window_dilation[i])
PaddedExtent(i) == DilatedExtent(i) + call.padding[i][1] + call.padding[i][2]

\* The shape law of the specification, per dimension.
ShapeLaw(i) ==
  ((PaddedExtent(i) - DilatedWindow(i)) \div call.window_strides[i]) + 1

WindowFits == \A i \in 1..Rank : DilatedWindow(i) =< PaddedExtent(i)

\* C1 as stated: for every operand shape and geometry whatsoever,
\* reduce_window_shape_tuple returns the shape law's value in each dimension.
C1_AsStated ==
  pc # "bind" =>
    /\ IsOk(ret.out_shape)
    /\ \A i \in 1..Rank : ret.out_shape.val[i] = ShapeLaw(i)

\* C1 (amended): whenever in every dimension the dilated window extent does
\* not exceed the padded extent, reduce_window_shape_tuple returns, per
\* dimension, floor((dilate(extent, base_dilation) + pad_lo + pad_hi
\* - dilate(window, window_dilation)) / stride) + 1.
C1_ShapeLaw ==
  (pc # "bind" /\ WindowFits) =>
    /\ IsOk(ret.out_shape)
    /\ Len(ret.out_shape.val) = Rank
    /\ \A i \in 1..Rank : ret.out_shape.val[i] = ShapeLaw(i)

\* A shape computed with base dilation, window dilation, a stride that does
\* not divide the remaining extent and a negative low padding.
C1_Witness ==
  /\ pc = "bound"
  /\ IsOk(ret.out_shape)
  /\ call.base_dilation[1] > 1
  /\ call.window_dilation[1] > 1
  /\ call.window_dimensions[1] > 1
  /\ call.window_strides[1] > 1
  /\ call.padding[1][1] < 0
  /\ (PaddedExtent(1) - DilatedWindow(1)) % call.window_strides[1] # 0
  /\ ret.out_shape.val[1] >= 2

\* C2: when in some dimension the dilated window extent is larger than the
\* padded extent, the shape computation raises an error, and a returned
\* shape never has a negative extent.
C2_OversizedWindowRaises ==
  pc # "bind" =>
    /\ ~WindowFits => ret.out_shape.err = "TypeError"
    /\ IsOk(ret.out_shape) =>
         \A i \in 1..Rank : ret.out_shape.val[i] >= 0

\* The window fits the padded extent before, and not after, its dilation.
C2_Witness ==
  /\ pc = "bound"
  /\ ret.out_shape.err = "TypeError"
  /\ call.window_dimensions[1] =< PaddedExtent(1)
  /\ DilatedWindow(1) > PaddedExtent(1)
  /\ PaddedExtent(1) > 0

(***************************************************************************)
(* Properties of the transpose rule of reduce_window_sum.                  *)
(***************************************************************************)
Dot(a, b) ==
  LET s[i \in 0..Len(a)] == IF i = 0 THEN 0 ELSE s[i - 1] + a[i] * b[i]
  IN s[Len(a)]

Trees == {"leaf", "tuple1", "tuple2", "empty"}
NumLeaves(tree) ==
  IF tree = "leaf" \/ tree = "tuple1" THEN 1
  ELSE IF tree = "tuple2" THEN 2 ELSE 0

\* The combiners: the functions lax.add, lax.max and lax.min themselves, and
\* any other callable (a user function, lax.mul, a lambda around lax.add).
Computations == {"lax.add", "lax.max", "lax.min", "other"}

\* aval.val == 0 and aval.val == identity: numeric equality of the dtype.
ValEq(dtype, a, b) == IF dtype = "float" THEN FloatEQ(a, b) ELSE a = b

\* A plausible slip: the rank of the init value is not looked at.
_get_monoid_window_reducer_anyrank(monoid_op, xs) ==
  IF Len(xs) # 1 THEN "None"
  ELSE LET aval == xs[1]
       IN IF aval.concrete
          THEN IF monoid_op = "lax.add"
               THEN (IF ValEq(aval.dtype, aval.val, _zero(aval.dtype))
                     THEN "_reduce_window_sum" ELSE "False")
               ELSE IF monoid_op = "lax.max"
               THEN (IF ValEq(aval.dtype, aval.val, _get_max_identity(aval.dtype))
                     THEN "_reduce_window_max" ELSE "False")
               ELSE IF monoid_op = "lax.min"
               THEN (IF ValEq(aval.dtype, aval.val, _get_min_identity(aval.dtype))
                     THEN "_reduce_window_min" ELSE "False")
               ELSE "None"
          ELSE "None"

\* Returns the specialised binder, or a false value (None or False).
_get_monoid_window_reducer(monoid_op, xs) ==
  IF Len(xs) # 1 THEN "None"
  ELSE LET aval == xs[1]
       IN IF aval.concrete /\ aval.shape = <<>>
          THEN IF monoid_op = "lax.add"
               THEN (IF ValEq(aval.dtype, aval.val, _zero(aval.dtype))
                     THEN "_reduce_window_sum" ELSE "False")
               ELSE IF monoid_op = "lax.max"
               THEN (IF ValEq(aval.dtype, aval.val, _get_max_identity(aval.dtype))
                     THEN "_reduce_window_max" ELSE "False")
               ELSE IF monoid_op = "lax.min"
               THEN (IF ValEq(aval.dtype, aval.val, _get_min_identity(aval.dtype))
                     THEN "_reduce_window_min" ELSE "False")
               ELSE "None"
          ELSE "None"

MonoidReducers ==
  {"_reduce_window_sum", "_reduce_window_max", "_reduce_window_min"}

\* What a primitive's bind accepts as an operand: an array, not a tuple or
\* another container of arrays (abstractify raises TypeError, "... is not a
\* valid JAX type").
IsValidJaxType(tree) == tree = "leaf"

\* A plausible slip: the combiner's output tree is not compared with the
\* operands' tree.
reduce_window_unchecked_out_tree(operand_tree, init_value_tree, flat_init_values, computation, out_tree) ==
  LET raised(e) == [raised |-> e, monoid_reducer |-> "unset", bound |-> "none",
                    operands_bound |-> "none", returned_tree |-> "none"]
      monoid_reducer == _get_monoid_window_reducer(computation, flat_init_values)
  IN IF operand_tree # init_value_tree THEN raised("ValueError")
     ELSE IF NumLeaves(operand_tree) = 0 THEN raised("ValueError")
     ELSE IF NumLeaves(operand_tree) # Len(flat_init_values)
          THEN raised("ValueError")
     ELSE IF monoid_reducer \in MonoidReducers
          THEN [raised |-> IF IsValidJaxType(operand_tree) THEN "none"
                           ELSE "TypeError",
                monoid_reducer |-> monoid_reducer,
                bound |-> CASE monoid_reducer = "_reduce_window_sum"
                                 -> "reduce_window_sum_p"
                            [] monoid_reducer = "_reduce_window_max"
                                 -> "reduce_window_max_p"
                            [] monoid_reducer = "_reduce_window_min"
                                 -> "reduce_window_min_p",
                operands_bound |-> "operand",
                returned_tree |-> IF IsValidJaxType(operand_tree) THEN "leaf"
                                  ELSE "none"]
     ELSE [raised |-> "none", monoid_reducer |-> monoid_reducer,
           bound |-> "reduce_window_p", operands_bound |-> "flat_operands",
           returned_tree |-> out_tree]

\* reduce_window up to its return: the exception raised ("none" if none),
\* the value of monoid_reducer ("unset" if the call did not get that far),
\* the primitive whose bind was called, which of operand (the argument as
\* given) and flat_operands the bind got, and the tree structure of the
\* value returned.
reduce_window(operand_tree, init_value_tree, flat_init_values, computation, out_tree) ==
  LET raised(e) == [raised |-> e, monoid_reducer |-> "unset", bound |-> "none",
                    operands_bound |-> "none", returned_tree |-> "none"]
      monoid_reducer == _get_monoid_window_reducer(computation, flat_init_values)
  IN IF operand_tree # init_value_tree THEN raised("ValueError")
     ELSE IF NumLeaves(operand_tree) = 0 THEN raised("ValueError")
     ELSE IF NumLeaves(operand_tree) # Len(flat_init_values)
          THEN raised("ValueError")
     ELSE IF monoid_reducer \in MonoidReducers
          THEN [raised |-> IF IsValidJaxType(operand_tree) THEN "none"
                           ELSE "TypeError",
                monoid_reducer |-> monoid_reducer,
                bound |-> CASE monoid_reducer = "_reduce_window_sum"
                                 -> "reduce_window_sum_p"
                            [] monoid_reducer = "_reduce_window_max"
                                 -> "reduce_window_max_p"
                            [] monoid_reducer = "_reduce_window_min"
                                 -> "reduce_window_min_p",
                operands_bound |-> "operand",
                returned_tree |-> IF IsValidJaxType(operand_tree) THEN "leaf"
                                  ELSE "none"]
     ELSE IF operand_tree # out_tree
          THEN [raised |-> "ValueError", monoid_reducer |-> monoid_reducer,
                bound |-> "none", operands_bound |-> "none",
                returned_tree |-> "none"]
     ELSE [raised |-> "none", monoid_reducer |-> monoid_reducer,
           bound |-> "reduce_window_p", operands_bound |-> "flat_operands",
           returned_tree |-> out_tree]

(***************************************************************************)
(* Specification SpecMonoid: one call of reduce_window.                    *)
(***************************************************************************)
Dtypes == {"float", "int32", "bool"}

InitScalars(dtype) ==
  IF dtype = "float" THEN {PosZero, NegZero, PosOne, NegInf, PosInf, QNaN}
  ELSE IF dtype = "int32" THEN {0, 1, IntMin, IntMax}
  ELSE {0, 1}

\* Init values as core.get_aval sees them: a ConcreteArray or a traced
\* value, of rank 0 or 1.
InitValues ==
  UNION {[concrete : BOOLEAN, shape : {<<>>, <<1>>}, dtype : {d},
          val : InitScalars(d)] : d \in Dtypes}

\* The second init value of a two-operand reduction.
SecondInitValues == {v \in InitValues : v.dtype = "int32" /\ v.val = 0}

FlatInitValues(tree) ==
  IF NumLeaves(tree) = 0 THEN {<<>>}
  ELSE IF NumLeaves(tree) = 1 THEN {<<v>> : v \in InitValues}
  ELSE {<<v, w>> : v \in InitValues, w \in SecondInitValues}

MonoidCalls ==
  UNION {[operand_tree : Trees, init_value_tree : {t},
          flat_init_values : FlatInitValues(t),
          computation : Computations, out_tree : {"leaf", "tuple1", "tuple2"}] :
            t \in Trees}

MonoidInit ==
  /\ pc = "call"
  /\ call \in MonoidCalls
  /\ ret = [raised |-> "pending", monoid_reducer |-> "unset", bound |-> "none",
            operands_bound |-> "none", returned_tree |-> "none"]

CallReduceWindow ==
  /\ pc = "call"
  /\ ret' = reduce_window(call.operand_tree, call.init_value_tree,
                          call.flat_init_values, call.computation,
                          call.out_tree)
  /\ pc' = "returned"
  /\ UNCHANGED call

MonoidNext == CallReduceWindow

SpecMonoid == MonoidInit /\ [][MonoidNext]_vars

\* The condition of C3, in the claim's words.
IsIdentityOf(computation, x) ==
  \/ computation = "lax.add" /\ ValEq(x.dtype, x.val, _zero(x.dtype))
  \/ computation = "lax.max" /\ ValEq(x.dtype, x.val, _get_max_identity(x.dtype))
  \/ computation = "lax.min" /\ ValEq(x.dtype, x.val, _get_min_identity(x.dtype))

MonoidCondition ==
  /\ Len(call.flat_init_values) = 1
  /\ call.flat_init_values[1].concrete
  /\ call.flat_init_values[1].shape = <<>>
  /\ IsIdentityOf(call.computation, call.flat_init_values[1])

SpecialisedFor(computation) ==
  IF computation = "lax.add" THEN "reduce_window_sum_p"
  ELSE IF computation = "lax.max" THEN "reduce_window_max_p"
  ELSE "reduce_window_min_p"

\* C3: in a call that reaches the selection, a specialised binder is selected
\* if and only if there is exactly one init value, it is a concrete rank-0
\* scalar, and it equals the identity of the combiner lax.add (0), lax.max or
\* lax.min; the call then binds that combiner's specialised primitive (the
\* bind succeeds when the operand is given as an array). For every other
\* combination nothing is selected and the only primitive the call binds is
\* the generic reduce_window.
C3_MonoidSelection ==
  (pc = "returned" /\ ret.monoid_reducer # "unset") =>
    /\ (ret.monoid_reducer \in MonoidReducers) <=> MonoidCondition
    /\ MonoidCondition =>
         /\ call.operand_tree = "leaf" => ret.raised = "none"
         /\ ret.bound = SpecialisedFor(call.computation)
    /\ ~MonoidCondition =>
         /\ ret.bound \in {"reduce_window_p", "none"}
         /\ ret.bound = "reduce_window_p" <=> ret.raised = "none"
         /\ ret.raised = "none" <=> call.operand_tree = call.out_tree

\* lax.max with the concrete scalar -inf selects reduce_window_max.
C3_Witness ==
  /\ pc = "returned"
  /\ call.computation = "lax.max"
  /\ call.flat_init_values = <<[concrete |-> TRUE, shape |-> <<>>,
                                dtype |-> "float", val |-> NegInf]>>
  /\ ret.monoid_reducer = "_reduce_window_max"
  /\ ret.bound = "reduce_window_max_p"

(***************************************************************************)
(* Specification SpecPack: a key and a value packed into a double word and *)
(* unpacked again, as the packed lowering does around its reduction.       *)
(***************************************************************************)
PackInit ==
  /\ pc = "pack"
  /\ call \in [a : Words, b : Words]
  /\ ret = [packed |-> 0, fst |-> 0, snd |-> 0]

\* pack(operand, tangents)
Pack ==
  /\ pc = "pack"
  /\ ret' = [ret EXCEPT !.packed = pack(call.a, call.b)]
  /\ pc' = "packed"
  /\ UNCHANGED call

\* fst(x) in the reducer region, snd(rw.result) on the way out
Unpack ==
  /\ pc = "packed"
  /\ ret' = [ret EXCEPT !.fst = fst(ret.packed), !.snd = snd(ret.packed)]
  /\ pc' = "unpacked"
  /\ UNCHANGED call

PackNext == Pack \/ Unpack

SpecPack == PackInit /\ [][PackNext]_vars

\* C7: for every pair of nbits-bit patterns (a, b), pack(a, b) is the
\* double word (a << nbits) | b, and fst and snd of it give back a and b bit
\* for bit.
C7_PackRoundTrip ==
  /\ pc # "pack" =>
       /\ ret.packed \in DoubleWords
       /\ ret.packed = call.a * 2^nbits + call.b
  /\ pc = "unpacked" =>
       /\ ret.fst = call.a
       /\ ret.snd = call.b

\* The pair (-inf, -0.0): both sign bits set.
C7_Witness ==
  /\ pc = "unpacked"
  /\ call.a = NegInf
  /\ call.b = NegZero
  /\ ret.fst = NegInf
  /\ ret.snd = NegZero

(***************************************************************************)
(* The generic primitive reduce_window_p.                                  *)
(***************************************************************************)
\* A plausible slip: every output gets the first operand's dtype.
_reduce_window_abstract_eval_rule_firstdtype(operands, init_values, window_dimensions, window_strides, padding, base_dilation, window_dilation) ==
  IF \E i \in 1..Len(operands) : operands[i].dtype # init_values[i].dtype
  THEN Raise("TypeError")
  ELSE IF \E i \in 1..Len(init_values) : Len(init_values[i].shape) # 0
  THEN Raise("TypeError")
  ELSE LET out_shape == _common_reduce_window_shape_rule(
                          ShapeOf(operands[1]), window_dimensions,
                          window_strides, padding, base_dilation,
                          window_dilation)
       IN IF ~IsOk(out_shape) THEN out_shape
          ELSE Ok([k \in 1..Len(operands) |->
                     [shape |-> out_shape.val, dtype |-> operands[1].dtype]])

\* operands and init_values are the two halves of avals; the result is one
\* ShapedArray per operand.
_reduce_window_abstract_eval_rule(operands, init_values, window_dimensions, window_strides, padding, base_dilation, window_dilation) ==
  IF \E i \in 1..Len(operands) : operands[i].dtype # init_values[i].dtype
  THEN Raise("TypeError")
  ELSE IF \E i \in 1..Len(init_values) : Len(init_values[i].shape) # 0
  THEN Raise("TypeError")
  ELSE LET out_shape == _common_reduce_window_shape_rule(
                          ShapeOf(operands[1]), window_dimensions,
                          window_strides, padding, base_dilation,
                          window_dilation)
       IN IF ~IsOk(out_shape) THEN out_shape
          ELSE Ok([k \in 1..Len(operands) |->
                     [shape |-> out_shape.val, dtype |-> operands[k].dtype]])

\* One mhlo.ReduceWindowOp over all operands: its region gets a tuple of
\* scalars, one per operand, for each of its two arguments.
_generic_reduce_window_lower(aval_out_shape, operands, init_values, jaxpr, window_dimensions, window_strides, padding, base_dilation, window_dilation) ==
  LET num == Len(operands)
      zipped == [i \in 1..Len(operands[1].data) |->
                   [k \in 1..num |-> operands[k].data[i]]]
      inits == [k \in 1..num |-> init_values[k].val]
      rw == ReduceWindowOp(aval_out_shape[1], zipped, inits, jaxpr,
                           window_dimensions, window_strides, base_dilation,
                           window_dilation, padding)
  IN [k \in 1..num |->
        Array(operands[k].dtype, [j \in 1..aval_out_shape[1] |-> rw[j][k]])]

\* reduce_window_p.bind(*(flat_operands + flat_init_values), jaxpr=...)
reduce_window_p_bind(operands, init_values, jaxpr, window_dimensions, window_strides, padding, base_dilation, window_dilation) ==
  LET avals_out == _reduce_window_abstract_eval_rule(operands, init_values,
                     window_dimensions, window_strides, padding,
                     base_dilation, window_dilation)
  IN IF ~IsOk(avals_out) THEN avals_out
     ELSE Ok(_generic_reduce_window_lower(avals_out.val[1].shape, operands,
               init_values, jaxpr, window_dimensions, window_strides,
               padding, base_dilation, window_dilation))

\* monoid_reducer(operand, window_dimensions, ...) for the binder selected.
monoid_reducer_call(monoid_reducer, operand, window_dimensions, window_strides, padding, base_dilation, window_dilation) ==
  CASE monoid_reducer = "_reduce_window_sum" ->
         _reduce_window_sum(operand, window_dimensions, window_strides,
                            padding, base_dilation, window_dilation)
    [] monoid_reducer = "_reduce_window_max" ->
         _reduce_window_max(operand, window_dimensions, window_strides,
                            padding, base_dilation, window_dilation)
    [] monoid_reducer = "_reduce_window_min" ->
         _reduce_window_min(operand, window_dimensions, window_strides,
                            padding, base_dilation, window_dilation)

(***************************************************************************)
(* Specification SpecReduce: reduce_window on one operand with a concrete  *)
(* scalar init value of the operand's dtype, and the generic primitive     *)
(* bound to the same combiner, init value and inputs.                      *)
(***************************************************************************)
MaxLen == 3

ReduceStrides == {1, 2}
ReducePads == {<<0, 0>>, <<1, 0>>, <<0, 1>>}
ReduceDilations == {1, 2}

ReduceElements == {NegZero, PosOne, NegInf, QNaN}
ReduceOperands ==
  UNION {[dtype : {"float"}, data : [1..n -> ReduceElements]] : n \in 0..MaxLen}
    \cup {Array("int32", [i \in 1..n |-> (0 - 3)^i]) : n \in 1..MaxLen}

ReduceInits(dtype) ==
  {v \in InitValues : v.dtype = dtype /\ v.concrete /\ v.shape = <<>>}

ReduceCalls ==
  UNION {[operand : {x}, init_value : ReduceInits(x.dtype),
          computation : {"lax.add", "lax.max", "lax.min"},
          window_dimensions : {<<w>> : w \in 1..MaxWindow},
          window_strides : {<<st>> : st \in ReduceStrides},
          padding : {<<pd>> : pd \in ReducePads},
          base_dilation : {<<d>> : d \in ReduceDilations},
          window_dilation : {<<1>>},
          xla_order : XlaOrders] : x \in ReduceOperands}

ReduceInit ==
  /\ pc = "call"
  /\ call \in ReduceCalls
  /\ ret = [monoid_reducer |-> "unset", out |-> NoResult, generic |-> NoResult]

\* reduce_window(operand, init_value, computation, ...)
ReduceWindow ==
  /\ pc = "call"
  /\ LET monoid_reducer ==
           _get_monoid_window_reducer(call.computation, <<call.init_value>>)
     IN ret' = [ret EXCEPT
          !.monoid_reducer = monoid_reducer,
          !.out =
            IF monoid_reducer \in MonoidReducers
            THEN monoid_reducer_call(monoid_reducer, call.operand,
                   call.window_dimensions, call.window_strides, call.padding,
                   call.base_dilation, call.window_dilation)
            ELSE LET out_flat == reduce_window_p_bind(<<call.operand>>,
                       <<call.init_value>>,
                       Region(call.computation, call.operand.dtype, "none"),
                       call.window_dimensions, call.window_strides,
                       call.padding, call.base_dilation, call.window_dilation)
                 IN IF IsOk(out_flat) THEN Ok(out_flat.val[1]) ELSE out_flat]
  /\ pc' = "returned"
  /\ UNCHANGED call

\* The generic primitive on the same inputs.
BindGeneric ==
  /\ pc = "returned"
  /\ LET out_flat == reduce_window_p_bind(<<call.operand>>,
           <<call.init_value>>,
           Region(call.computation, call.operand.dtype, "none"),
           call.window_dimensions, call.window_strides,
           call.padding, call.base_dilation, call.window_dilation)
     IN ret' = [ret EXCEPT
          !.generic = IF IsOk(out_flat) THEN Ok(out_flat.val[1]) ELSE out_flat]
  /\ pc' = "compared"
  /\ UNCHANGED call

ReduceNext == ReduceWindow \/ BindGeneric

SpecReduce == ReduceInit /\ [][ReduceNext]_vars

\* C4 as stated: whenever reduce_window takes the fast path, the specialised
\* primitive's output is exactly the output of the generic primitive run
\* with the same combiner and init value on the same inputs.
C4_AsStated ==
  (pc = "compared" /\ ret.monoid_reducer \in MonoidReducers) =>
    ret.out = ret.generic

\* Where C4 fails: the divergence is confined to lax.add with the init value
\* -0.0; in every other fast-path call the two outputs are the same bit for
\* bit.
C4_ExceptNegZeroInit ==
  (pc = "compared" /\ ret.monoid_reducer \in MonoidReducers
     /\ ~(call.computation = "lax.add" /\ call.init_value.val = NegZero
          /\ call.operand.dtype = "float")) =>
    ret.out = ret.generic

(***************************************************************************)
(* select_and_gather_add: shape rule and its two registered lowerings.     *)
(***************************************************************************)
_select_and_gather_add_shape_rule(tangents, operand, window_dimensions, window_strides, padding, base_dilation, window_dilation) ==
  IF ShapeOf(tangents) # ShapeOf(operand) THEN Raise("TypeError")
  ELSE _common_reduce_window_shape_rule(ShapeOf(operand), window_dimensions,
         window_strides, padding, base_dilation, window_dilation)

\* init = -np.inf if select_prim is lax.ge_p else np.inf
SelectInit(select_prim) == IF select_prim = "ge_p" THEN NegInf ELSE PosInf

\* np.array(init, dtype=operand.dtype): a concrete rank-0 value.
ConcreteScalar(dtype, val) ==
  [concrete |-> TRUE, shape |-> <<>>, dtype |-> dtype, val |-> val]

\* The default lowering: reduce_window over the pair (operand, tangents); two
\* init values, so reduce_window binds the generic primitive. The second
\* output is returned.
_select_and_gather_add_using_variadic_reducewindow(tangents, operand, select_prim, window_dimensions, window_strides, padding, base_dilation, window_dilation) ==
  LET init == SelectInit(select_prim)
      outs == reduce_window_p_bind(<<operand, tangents>>,
                <<ConcreteScalar(operand.dtype, init),
                  ConcreteScalar(operand.dtype, PosZero)>>,
                Region("variadic_reducer", operand.dtype, select_prim),
                window_dimensions, window_strides, padding, base_dilation,
                window_dilation)
  IN IF IsOk(outs) THEN Ok(outs.val[2]) ELSE outs

\* The gpu lowering, wide-word branch (2 * nbits bits fit in a native word).
_select_and_gather_add_lowering(out_aval_shape, tangents, operand, select_prim, window_dimensions, window_strides, padding, base_dilation, window_dilation) ==
  LET init == SelectInit(select_prim)
      packed == [i \in 1..Len(operand.data) |->
                   pack(operand.data[i], tangents.data[i])]
      rw == ReduceWindowOp(out_aval_shape[1], packed, pack(init, PosZero),
                           Region("packed_reducer", operand.dtype, select_prim),
                           window_dimensions, window_strides, base_dilation,
                           window_dilation, padding)
  IN Array(operand.dtype, [j \in 1..out_aval_shape[1] |-> snd(rw[j])])

\* A plausible slip: max is paired with <= and min with >=.
_reduce_window_chooser_jvp_rule_swapped(prim) ==
  IF prim = "max_p" THEN "le_p" ELSE "ge_p"

\* The select_prim the forward-mode rule of reduce_window_max / min passes
\* to _select_and_gather_add.
_reduce_window_chooser_jvp_rule(prim) ==
  IF prim = "max_p" THEN "ge_p" ELSE "le_p"

(***************************************************************************)
(* Specification SpecGather: the forward-mode rule of reduce_window_max or *)
(* reduce_window_min binds select_and_gather_add, which is lowered both    *)
(* ways.                                                                   *)
(***************************************************************************)
GatherElements == {NegInf, PosOne, PosInf, QNaN}

\* Tangents: a different non-zero pattern with the sign bit set at every
\* position.
TangentsFor(n) == Array("float", [i \in 1..n |-> 2^(nbits - 1) + i])

\* The operand [1, 5, 2, 4] of the pooling example, as increasing patterns.
ExampleOperand == Array("float", <<1, 5, 2, 4>>)

GatherOperands ==
  UNION {[dtype : {"float"}, data : [1..n -> GatherElements]] : n \in 0..MaxLen}
    \cup {ExampleOperand}

GatherCalls ==
  UNION {[operand : {x}, tangents : {TangentsFor(Len(x.data))},
          prim : {"max_p", "min_p"},
          window_dimensions : {<<w>> : w \in 1..MaxWindow},
          window_strides : {<<st>> : st \in ReduceStrides},
          padding : {<<pd>> : pd \in ReducePads},
          base_dilation : {<<d>> : d \in ReduceDilations},
          window_dilation : {<<d>> : d \in ReduceDilations},
          xla_order : XlaOrders] : x \in GatherOperands}

GatherInit ==
  /\ pc = "jvp"
  /\ call \in GatherCalls
  /\ ret = [select_prim |-> "unset", out_shape |-> NoResult,
            variadic |-> NoResult, packed |-> NoResult]

\* _reduce_window_chooser_jvp_rule: select_and_gather_add_p.bind(g, operand,
\* select_prim=...), with its shape rule.
ChooserJvp ==
  /\ pc = "jvp"
  /\ ret' = [ret EXCEPT
       !.select_prim = _reduce_window_chooser_jvp_rule(call.prim),
       !.out_shape = _select_and_gather_add_shape_rule(call.tangents,
                       call.operand, call.window_dimensions,
                       call.window_strides, call.padding, call.base_dilation,
                       call.window_dilation)]
  /\ pc' = "bound"
  /\ UNCHANGED call

\* The lowering registered for every platform but gpu.
LowerVariadic ==
  /\ pc = "bound"
  /\ IsOk(ret.out_shape)
  /\ ret' = [ret EXCEPT !.variadic =
       _select_and_gather_add_using_variadic_reducewindow(call.tangents,
         call.operand, ret.select_prim, call.window_dimensions,
         call.window_strides, call.padding, call.base_dilation,
         call.window_dilation)]
  /\ pc' = "variadic"
  /\ UNCHANGED call

\* The lowering registered for gpu.
LowerPacked ==
  /\ pc = "variadic"
  /\ ret' = [ret EXCEPT !.packed =
       Ok(_select_and_gather_add_lowering(ret.out_shape.val, call.tangents,
            call.operand, ret.select_prim, call.window_dimensions,
            call.window_strides, call.padding, call.base_dilation,
            call.window_dilation))]
  /\ pc' = "lowered"
  /\ UNCHANGED call

GatherNext == ChooserJvp \/ LowerVariadic \/ LowerPacked

SpecGather == GatherInit /\ [][GatherNext]_vars

(***************************************************************************)
(* Properties of select_and_gather_add (checked under SpecGather).         *)
(***************************************************************************)

\* The operand positions that lie in window j: window slot k of window j is
\* at offset (j - 1) * stride + (k - 1) * window_dilation of the padded,
\* base-dilated operand.
WindowElems(j) ==
  {i \in 1..Len(call.operand.data) :
     \E k \in 1..call.window_dimensions[1] :
       (j - 1) * call.window_strides[1] + (k - 1) * call.window_dilation[1]
         - call.padding[1][1] = (i - 1) * call.base_dilation[1]}

\* >= for max, <= for min.
PredOf(prim) == IF prim = "max_p" THEN "ge_p" ELSE "le_p"

\* a is strictly ahead of b under the predicate.
Beats(select_prim, a, b) ==
  select_prim_bind(select_prim, a, b) /\ ~select_prim_bind(select_prim, b, a)

\* The positions of window j whose element is strictly ahead of every other
\* element of the window: at most one.
UniqueWinners(j) ==
  {i \in WindowElems(j) :
     \A i2 \in WindowElems(j) \ {i} :
       Beats(PredOf(call.prim), call.operand.data[i], call.operand.data[i2])}

\* Those that are also strictly ahead of the identity -inf (for >=) or +inf
\* (for <=) that fills the padding and starts the reduction.
StrictWinners(j) ==
  {i \in UniqueWinners(j) :
     Beats(PredOf(call.prim), call.operand.data[i],
           SelectInit(PredOf(call.prim)))}

\* C5 as stated: for each window whose winner is unique the output is the
\* tangent at the winner's position.
C5_AsStated ==
  pc \in {"variadic", "lowered"} =>
    /\ IsOk(ret.variadic)
    /\ \A j \in 1..Len(ret.variadic.val.data) : \A i \in UniqueWinners(j) :
         ret.variadic.val.data[j] = call.tangents.data[i]

\* C5 (amended): the forward-mode rule of reduce_window_max (resp. min) binds
\* select_and_gather_add with >= (resp. <=), and for each window in which one
\* operand element is strictly greater (resp. less) than every other element
\* of the window and than the identity -inf (resp. +inf), the output is the
\* tangent at that element's position.
C5_GatherRoutesWinner ==
  /\ pc # "jvp" => ret.select_prim = PredOf(call.prim)
  /\ pc \in {"variadic", "lowered"} =>
       /\ IsOk(ret.variadic)
       /\ Len(ret.variadic.val.data) = ret.out_shape.val[1]
       /\ \A j \in 1..Len(ret.variadic.val.data) : \A i \in StrictWinners(j) :
            ret.variadic.val.data[j] = call.tangents.data[i]

\* The pooling example: operand [1,5,2,4], window 2, stride 2, no padding,
\* max: the tangents at positions 2 and 4.
C5_Witness ==
  /\ pc = "variadic"
  /\ call.operand = ExampleOperand
  /\ call.prim = "max_p"
  /\ call.window_dimensions = <<2>>
  /\ call.window_strides = <<2>>
  /\ call.padding = <<<<0, 0>>>>
  /\ call.base_dilation = <<1>>
  /\ call.window_dilation = <<1>>
  /\ StrictWinners(1) = {2}
  /\ StrictWinners(2) = {4}
  /\ ret.variadic.val.data = <<call.tangents.data[2], call.tangents.data[4]>>

\* C6: on the same tangents, operand and geometry, and with the backend
\* combining in the same order, the packed lowering returns exactly what the
\* (key, value) reduction returns.
C6_PackedEqualsVariadic ==
  pc = "lowered" =>
    /\ IsOk(ret.packed)
    /\ ret.packed = ret.variadic

\* Both lowerings ran on an operand with a NaN and a tie, with padding; some
\* window gave the identity's value 0 and some window a tangent.
C6_Witness ==
  /\ pc = "lowered"
  /\ call.xla_order = "acc_last"
  /\ call.padding = <<<<1, 0>>>>
  /\ call.window_dimensions = <<2>>
  /\ call.window_strides = <<2>>
  /\ call.operand.data = <<PosOne, PosOne, QNaN>>
  /\ \E j \in 1..Len(ret.packed.val.data) : ret.packed.val.data[j] = PosZero
  /\ \E j \in 1..Len(ret.packed.val.data) :
       ret.packed.val.data[j] = call.tangents.data[2]

(***************************************************************************)
(* select_and_scatter, select_and_scatter_add and the transpose rules.     *)
(***************************************************************************)

\* mhlo.SelectAndScatterOp: for each source element j the select region
\* picks one operand position of window j, scanning the window's in-bounds
\* positions in order and replacing the selected one when
\* select(selected, current) is false; the scatter region combines the
\* source elements routed to an operand position, starting from init_value.
SelectAndScatterOp(operand, source, init_value, select_prim, scatter, dtype, window_dimensions, window_strides, padding) ==
  LET n == Len(operand)
      pos(j, k) == (j - 1) * window_strides[1] + (k - 1) - padding[1][1] + 1
      selected(j) ==
        LET sel[k \in 0..window_dimensions[1]] ==
              IF k = 0 THEN 0
              ELSE LET p == pos(j, k)
                   IN IF p < 1 \/ p > n THEN sel[k - 1]
                      ELSE IF sel[k - 1] = 0 THEN p
                      ELSE IF select_prim_bind(select_prim,
                                operand[sel[k - 1]], operand[p])
                           THEN sel[k - 1] ELSE p
        IN sel[window_dimensions[1]]
      scattered(i) ==
        LET acc[j \in 0..Len(source)] ==
              IF j = 0 THEN init_value
              ELSE IF selected(j) = i
                   THEN IF scatter = "lax.bitwise_or"
                        THEN max_mhlo(dtype, acc[j - 1], source[j])
                        ELSE AddOp(dtype, acc[j - 1], source[j])
                   ELSE acc[j - 1]
        IN acc[Len(source)]
  IN [i \in 1..n |-> scattered(i)]

_select_and_scatter_shape_rule(operand, window_dimensions, window_strides) ==
  IF ~_check_shapelike(window_dimensions, FALSE) THEN Raise("TypeError")
  ELSE IF ~_check_shapelike(window_strides, FALSE) THEN Raise("TypeError")
  ELSE IF Len(window_dimensions) # Len(window_strides) THEN Raise("TypeError")
  ELSE Ok(ShapeOf(operand))

\* select_and_scatter_p.bind with select = select_prim.bind and scatter one
\* of lax.add and lax.bitwise_or (on bool elements 0 and 1, the maximum): the
\* shape rule, then _select_and_scatter_lower.
_select_and_scatter(operand, select_prim, window_dimensions, window_strides, padding, source, init_value, scatter) ==
  LET shape == _select_and_scatter_shape_rule(operand, window_dimensions,
                                              window_strides)
  IN IF ~IsOk(shape) THEN shape
     ELSE Ok(Array(operand.dtype,
               SelectAndScatterOp(operand.data, source.data, init_value,
                 select_prim, scatter, operand.dtype, window_dimensions,
                 window_strides, padding)))

_select_and_scatter_add_impl(source, operand, select_prim, window_dimensions, window_strides, padding, expand_padding) ==
  LET dtype == source.dtype
      scatter == IF dtype = "bool" THEN "lax.bitwise_or" ELSE "lax.add"
      identity == IF select_prim = "ge_p" THEN _get_max_identity(dtype)
                  ELSE _get_min_identity(dtype)
      pads == [i \in 1..Len(padding) |-> <<padding[i][1], padding[i][2], 0>>]
      padded == IF expand_padding THEN lax_pad(operand, identity, pads)
                ELSE Ok(operand)
      padding2 == IF expand_padding THEN ZeroPads(Len(padding)) ELSE padding
  IN IF ~IsOk(padded) THEN padded
     ELSE LET out == _select_and_scatter(padded.val, select_prim,
                       window_dimensions, window_strides, padding2, source,
                       _zero(operand.dtype), scatter)
          IN IF ~IsOk(out) \/ ~expand_padding THEN out
             ELSE lax_slice(out.val, unzip_lo(padding),
                    [i \in 1..Len(padding) |->
                       padding[i][1] + ShapeOf(operand)[i]],
                    Ones(Len(padding)))

\* The platforms with their own lowering registrations.
Platforms == {"tpu", "cpu", "gpu"}

\* select_and_scatter_add_p.bind: expand_padding is True on cpu and gpu.
_select_and_scatter_add(source, operand, select_prim, window_dimensions, window_strides, padding) ==
  _select_and_scatter_add_impl(source, operand, select_prim,
    window_dimensions, window_strides, padding,
    call.platform \in {"cpu", "gpu"})

\* select_and_gather_add_p.bind: the shape rule, then the packed lowering on
\* gpu and the variadic one elsewhere.
_select_and_gather_add(tangents, operand, select_prim, window_dimensions, window_strides, padding, base_dilation, window_dilation) ==
  LET shape == _select_and_gather_add_shape_rule(tangents, operand,
                 window_dimensions, window_strides, padding, base_dilation,
                 window_dilation)
  IN IF ~IsOk(shape) THEN shape
     ELSE IF call.platform = "gpu"
     THEN Ok(_select_and_gather_add_lowering(shape.val, tangents, operand,
               select_prim, window_dimensions, window_strides, padding,
               base_dilation, window_dilation))
     ELSE _select_and_gather_add_using_variadic_reducewindow(tangents,
            operand, select_prim, window_dimensions, window_strides, padding,
            base_dilation, window_dilation)

\* The cotangent for source, given the cotangent t of the scattered result.
_select_and_scatter_add_transpose(t, operand, select_prim, window_dimensions, window_strides, padding) ==
  LET ones == Ones(Len(window_dimensions))
  IN _select_and_gather_add(t, operand, select_prim, window_dimensions,
                            window_strides, padding, ones, ones)

\* ad_util.Zero(aval): the symbolic zero cotangent.
Zero(aval) == [zero_aval |-> aval]
IsZero(t) == "zero_aval" \in DOMAIN t

\* A plausible slip: the cotangent is scattered with the other predicate.
_select_and_gather_add_transpose_flipped(t, operand, select_prim, window_dimensions, window_strides, padding, base_dilation, window_dilation) ==
  IF \E i \in 1..Len(window_dilation) : window_dilation[i] # 1
  THEN Raise("NotImplementedError")
  ELSE IF IsZero(t) THEN Ok(Zero(ShapedArray(ShapeOf(operand), operand.dtype)))
  ELSE LET has_base_dilation ==
             \E i \in 1..Len(base_dilation) : base_dilation[i] # 1
           select_identity ==
             IF select_prim = "ge_p" THEN _get_max_identity(operand.dtype)
             ELSE _get_min_identity(operand.dtype)
           padded ==
             IF has_base_dilation
             THEN lax_pad(operand, select_identity,
                    [i \in 1..Len(base_dilation) |->
                       <<0, 0, base_dilation[i] - 1>>])
             ELSE Ok(operand)
       IN IF ~IsOk(padded) THEN padded
          ELSE LET result == _select_and_scatter_add(t, padded.val,
                               IF select_prim = "ge_p" THEN "le_p" ELSE "ge_p",
                               window_dimensions, window_strides, padding)
               IN IF ~IsOk(result) \/ ~has_base_dilation THEN result
                  ELSE lax_slice(result.val,
                         [i \in 1..Len(base_dilation) |-> 0],
                         ShapeOf(result.val), base_dilation)

\* A plausible slip: the symbolic zero is returned before window_dilation
\* is looked at.
_select_and_gather_add_transpose_zero_first(t, operand, select_prim, window_dimensions, window_strides, padding, base_dilation, window_dilation) ==
  IF IsZero(t) THEN Ok(Zero(ShapedArray(ShapeOf(operand), operand.dtype)))
  ELSE IF \E i \in 1..Len(window_dilation) : window_dilation[i] # 1
  THEN Raise("NotImplementedError")
  ELSE LET has_base_dilation ==
             \E i \in 1..Len(base_dilation) : base_dilation[i] # 1
           select_identity ==
             IF select_prim = "ge_p" THEN _get_max_identity(operand.dtype)
             ELSE _get_min_identity(operand.dtype)
           padded ==
             IF has_base_dilation
             THEN lax_pad(operand, select_identity,
                    [i \in 1..Len(base_dilation) |->
                       <<0, 0, base_dilation[i] - 1>>])
             ELSE Ok(operand)
       IN IF ~IsOk(padded) THEN padded
          ELSE LET result == _select_and_scatter_add(t, padded.val,
                               select_prim, window_dimensions, window_strides,
                               padding)
               IN IF ~IsOk(result) \/ ~has_base_dilation THEN result
                  ELSE lax_slice(result.val,
                         [i \in 1..Len(base_dilation) |-> 0],
                         ShapeOf(result.val), base_dilation)

\* A plausible slip: d interior elements instead of d - 1.
_select_and_gather_add_transpose_interior_d(t, operand, select_prim, window_dimensions, window_strides, padding, base_dilation, window_dilation) ==
  IF \E i \in 1..Len(window_dilation) : window_dilation[i] # 1
  THEN Raise("NotImplementedError")
  ELSE IF IsZero(t) THEN Ok(Zero(ShapedArray(ShapeOf(operand), operand.dtype)))
  ELSE LET has_base_dilation ==
             \E i \in 1..Len(base_dilation) : base_dilation[i] # 1
           select_identity ==
             IF select_prim = "ge_p" THEN _get_max_identity(operand.dtype)
             ELSE _get_min_identity(operand.dtype)
           padded ==
             IF has_base_dilation
             THEN lax_pad(operand, select_identity,
                    [i \in 1..Len(base_dilation) |->
                       <<0, 0, base_dilation[i]>>])
             ELSE Ok(operand)
       IN IF ~IsOk(padded) THEN padded
          ELSE LET result == _select_and_scatter_add(t, padded.val,
                               select_prim, window_dimensions, window_strides,
                               padding)
               IN IF ~IsOk(result) \/ ~has_base_dilation THEN result
                  ELSE lax_slice(result.val,
                         [i \in 1..Len(base_dilation) |-> 0],
                         ShapeOf(result.val), base_dilation)

\* The cotangent for tangents, given the cotangent t of the gathered result:
\* an array or a symbolic zero.
_select_and_gather_add_transpose(t, operand, select_prim, window_dimensions, window_strides, padding, base_dilation, window_dilation) ==
  IF \E i \in 1..Len(window_dilation) : window_dilation[i] # 1
  THEN Raise("NotImplementedError")
  ELSE IF IsZero(t) THEN Ok(Zero(ShapedArray(ShapeOf(operand), operand.dtype)))
  ELSE LET has_base_dilation ==
             \E i \in 1..Len(base_dilation) : base_dilation[i] # 1
           select_identity ==
             IF select_prim = "ge_p" THEN _get_max_identity(operand.dtype)
             ELSE _get_min_identity(operand.dtype)
           padded ==
             IF has_base_dilation
             THEN lax_pad(operand, select_identity,
                    [i \in 1..Len(base_dilation) |->
                       <<0, 0, base_dilation[i] - 1>>])
             ELSE Ok(operand)
       IN IF ~IsOk(padded) THEN padded
          ELSE LET result == _select_and_scatter_add(t, padded.val,
                               select_prim, window_dimensions, window_strides,
                               padding)
               IN IF ~IsOk(result) \/ ~has_base_dilation THEN result
                  ELSE lax_slice(result.val,
                         [i \in 1..Len(base_dilation) |-> 0],
                         ShapeOf(result.val), base_dilation)

(***************************************************************************)
(* Specification SpecAdjoint: select_and_gather_add on a tangent g, its    *)
(* transpose rule on a cotangent t of the pooled shape, and the transpose  *)
(* rule of select_and_scatter_add on g.                                    *)
(***************************************************************************)

\* A tangent of the operand's shape with a different finite non-zero value
\* at every position, and the unit cotangents of the pooled shape.
TangentRamp(n) == Array("float", [i \in 1..n |-> i + 1])
UnitVectors(m) ==
  {Array("float", [i \in 1..m |-> IF i = j THEN PosOne ELSE PosZero]) :
     j \in 1..m}

AdjointCalls ==
  UNION {[operand : {x}, prim : {"max_p", "min_p"},
          window_dimensions : {<<w>> : w \in 1..MaxWindow},
          window_strides : {<<st>> : st \in ReduceStrides},
          padding : {<<pd>> : pd \in ReducePads},
          base_dilation : {<<d>> : d \in ReduceDilations},
          window_dilation : {<<1>>},
          platform : Platforms, xla_order : XlaOrders] : x \in GatherOperands}
    \cup [operand : {ExampleOperand}, prim : {"max_p", "min_p"},
          window_dimensions : {<<2>>}, window_strides : {<<1>>},
          padding : {<<<<0, 0>>>>}, base_dilation : {<<1>>},
          window_dilation : {<<2>>},
          platform : Platforms, xla_order : XlaOrders]

AdjointInit ==
  /\ pc = "call"
  /\ call \in AdjointCalls
  /\ ret = [g |-> <<>>, gathered |-> NoResult, t |-> <<>>,
            tangents_ct |-> NoResult, source_ct |-> NoResult]

\* _select_and_gather_add(g, operand, select_prim, ...), as the forward-mode
\* rule of reduce_window_max / min calls it.
GatherAdd ==
  /\ pc = "call"
  /\ LET g == TangentRamp(Len(call.operand.data))
     IN ret' = [ret EXCEPT
          !.g = g,
          !.gathered = _select_and_gather_add(g, call.operand,
                         _reduce_window_chooser_jvp_rule(call.prim),
                         call.window_dimensions, call.window_strides,
                         call.padding, call.base_dilation,
                         call.window_dilation)]
  /\ pc' = "gathered"
  /\ UNCHANGED call

\* Reverse mode through the gather: the cotangent for the tangents.
TransposeGather ==
  /\ pc = "gathered"
  /\ IsOk(ret.gathered)
  /\ \E t \in UnitVectors(Len(ret.gathered.val.data)) :
       ret' = [ret EXCEPT
         !.t = t,
         !.tangents_ct = _select_and_gather_add_transpose(t, call.operand,
                           _reduce_window_chooser_jvp_rule(call.prim),
                           call.window_dimensions, call.window_strides,
                           call.padding, call.base_dilation,
                           call.window_dilation)]
  /\ pc' = "transposed"
  /\ UNCHANGED call

\* Reverse mode through the gather when the cotangent of the gathered result
\* is a symbolic zero.
TransposeGatherZero ==
  /\ pc = "gathered"
  /\ IsOk(ret.gathered)
  /\ LET t == Zero(ShapedArray(ShapeOf(ret.gathered.val), "float"))
     IN ret' = [ret EXCEPT
          !.t = t,
          !.tangents_ct = _select_and_gather_add_transpose(t, call.operand,
                            _reduce_window_chooser_jvp_rule(call.prim),
                            call.window_dimensions, call.window_strides,
                            call.padding, call.base_dilation,
                            call.window_dilation)]
  /\ pc' = "transposed_zero"
  /\ UNCHANGED call

\* Reverse mode through the scatter: the cotangent for its source, given the
\* cotangent g of its result.
TransposeScatter ==
  /\ pc = "transposed"
  /\ ret' = [ret EXCEPT
       !.source_ct = _select_and_scatter_add_transpose(ret.g, call.operand,
                       _reduce_window_chooser_jvp_rule(call.prim),
                       call.window_dimensions, call.window_strides,
                       call.padding)]
  /\ pc' = "done"
  /\ UNCHANGED call

AdjointNext ==
  GatherAdd \/ TransposeGather \/ TransposeGatherZero \/ TransposeScatter

SpecAdjoint == AdjointInit /\ [][AdjointNext]_vars

\* The inner product of two arrays of finite values, exactly.
InnerProduct(a, b) ==
  LET sum[i \in 0..Len(a)] ==
        IF i = 0 THEN 0 ELSE sum[i - 1] + ValOf(a[i]) * ValOf(b[i])
  IN sum[Len(a)]

NoDilation == call.base_dilation = <<1>> /\ call.window_dilation = <<1>>

WindowsDecided ==
  \A j \in 1..Len(ret.gathered.val.data) :
    WindowElems(j) = {} \/ StrictWinners(j) # {}

WindowDilated ==
  \E i \in 1..Len(call.window_dilation) : call.window_dilation[i] # 1

\* select_and_scatter_add on the cotangent and the operand, with the
\* predicate and the window geometry of the gather; with a base dilation, on
\* the operand padded between its elements, the result then strided back.
RoutedToScatterAdd ==
  LET select_prim == _reduce_window_chooser_jvp_rule(call.prim)
      scatter_add(operand) ==
        _select_and_scatter_add(ret.t, operand, select_prim,
          call.window_dimensions, call.window_strides, call.padding)
  IN IF \A i \in 1..Len(call.base_dilation) : call.base_dilation[i] = 1
     THEN ret.tangents_ct = scatter_add(call.operand)
     ELSE LET padded ==
                lax_pad(call.operand,
                  IF select_prim = "ge_p"
                  THEN _get_max_identity(call.operand.dtype)
                  ELSE _get_min_identity(call.operand.dtype),
                  [i \in 1..Len(call.base_dilation) |->
                     <<0, 0, call.base_dilation[i] - 1>>])
          IN /\ IsOk(padded)
             /\ LET scattered == scatter_add(padded.val)
                IN IF IsOk(scattered)
                   THEN ret.tangents_ct =
                          lax_slice(scattered.val,
                            [i \in 1..Len(call.base_dilation) |-> 0],
                            ShapeOf(scattered.val), call.base_dilation)
                   ELSE ret.tangents_ct = scattered

\* C19: the transpose rule of select_and_gather_add raises
\* NotImplementedError whenever some window_dilation entry differs from 1,
\* for every cotangent, a symbolic zero included; otherwise it routes a
\* non-zero cotangent into select_and_scatter_add with the same select
\* predicate, window dimensions, strides and padding.
C19_TransposeOfGather ==
  (pc \in {"transposed", "transposed_zero", "done"}) =>
    /\ WindowDilated => ret.tangents_ct = Raise("NotImplementedError")
    /\ (~WindowDilated /\ ~IsZero(ret.t)) => RoutedToScatterAdd

\* A symbolic-zero cotangent with a window dilation of 2: the rule raised.
C19_Witness ==
  /\ pc = "transposed_zero"
  /\ IsZero(ret.t)
  /\ call.window_dilation = <<2>>
  /\ ret.tangents_ct = Raise("NotImplementedError")

(***************************************************************************)
(* Specification SpecScatter: one select_and_scatter_add invocation,       *)
(* lowered by both registered strategies of _select_and_scatter_add_impl.  *)
(***************************************************************************)

\* The source argument has the pooled shape of the operand (dilations 1).
PooledShape(operand, window_dimensions, window_strides, padding) ==
  reduce_window_shape_tuple(ShapeOf(operand), window_dimensions,
    window_strides, padding, Ones(Len(window_dimensions)),
    Ones(Len(window_dimensions)))

ScatterCalls ==
  {c \in UNION {[operand : {x}, select_prim : {"ge_p", "le_p"},
                 window_dimensions : {<<w>> : w \in 1..MaxWindow},
                 window_strides : {<<st>> : st \in ReduceStrides},
                 padding : {<<<<lo, hi>>>> : lo \in PadRange, hi \in PadRange}] :
                  x \in GatherOperands} :
     IsOk(PooledShape(c.operand, c.window_dimensions, c.window_strides,
                      c.padding))}

\* A source with a different finite non-zero value at every position.
SourceFor(c) ==
  TangentRamp(PooledShape(c.operand, c.window_dimensions, c.window_strides,
                          c.padding).val[1])

ScatterInit ==
  /\ pc = "call"
  /\ call \in ScatterCalls
  /\ ret = [source |-> <<>>, direct |-> NoResult, expanded |-> NoResult]

\* The default lowering: partial(_select_and_scatter_add_impl,
\* expand_padding=False).
ScatterAddDirect ==
  /\ pc = "call"
  /\ LET source == SourceFor(call)
     IN ret' = [ret EXCEPT
          !.source = source,
          !.direct = _select_and_scatter_add_impl(source, call.operand,
                       call.select_prim, call.window_dimensions,
                       call.window_strides, call.padding, FALSE)]
  /\ pc' = "direct"
  /\ UNCHANGED call

\* The cpu and gpu lowering: partial(_select_and_scatter_add_impl,
\* expand_padding=True).
ScatterAddExpanded ==
  /\ pc = "direct"
  /\ ret' = [ret EXCEPT
       !.expanded = _select_and_scatter_add_impl(ret.source, call.operand,
                      call.select_prim, call.window_dimensions,
                      call.window_strides, call.padding, TRUE)]
  /\ pc' = "expanded"
  /\ UNCHANGED call

ScatterNext == ScatterAddDirect \/ ScatterAddExpanded

SpecScatter == ScatterInit /\ [][ScatterNext]_vars

\* C11 as stated: for every source, operand, select predicate, window
\* dimensions, strides and padding, _select_and_scatter_add_impl with
\* expand_padding=True returns exactly the array it returns with
\* expand_padding=False.
C11_AsStated ==
  pc = "expanded" => ret.expanded = ret.direct

\* The identity of the select predicate, which fills the expanded padding.
SelectIdentity == SelectInit(call.select_prim)

\* Every operand element is strictly ahead of the identity that the expanded
\* strategy pads with.
AheadOfIdentity ==
  \A i \in 1..Len(call.operand.data) :
    Beats(call.select_prim, call.operand.data[i], SelectIdentity)

NonNegativePadding == call.padding[1][1] >= 0 /\ call.padding[1][2] >= 0

\* Where C11 holds: with non-negative padding the two strategies return the
\* same array whenever every operand element is strictly ahead of the
\* identity, and whenever there is no padding at all.
C11_AgreeAheadOfIdentity ==
  (pc = "expanded" /\ NonNegativePadding
     /\ (AheadOfIdentity \/ call.padding = <<<<0, 0>>>>)) =>
    /\ IsOk(ret.direct)
    /\ ret.expanded = ret.direct

\* The claim restricted to the paddings both strategies support (no negative
\* entry): still violated.
C11_OnNonNegativePadding ==
  (pc = "expanded" /\ NonNegativePadding) => ret.expanded = ret.direct

(***************************************************************************)
(* Rank-2 arrays: what the batching rules hand to the primitives. An       *)
(* array of rank 2 carries its shape; data[i][j] is the element at index   *)
(* (i - 1, j - 1).                                                         *)
(***************************************************************************)
Array2(dtype, shape, data) == [dtype |-> dtype, shape |-> shape, data |-> data]

\* jnp.moveaxis(x, 1, 0) of a rank-2 array.
moveaxis_to_front(x) ==
  Array2(x.dtype, <<x.shape[2], x.shape[1]>>,
         [i \in 1..x.shape[2] |-> [j \in 1..x.shape[1] |-> x.data[j][i]]])

\* batching.not_mapped (None): the batch dimension of a value that has none.
\* Batch dimensions that exist are axis numbers 0, 1, ...
not_mapped == 0 - 1

\* batching.bdim_at_front(x, bdim, size): a value without a batch dimension
\* (rank 1 here) is broadcast to size copies, a batch dimension elsewhere is
\* moved to the front.
bdim_at_front(x, bdim, size) ==
  IF bdim = not_mapped
  THEN Array2(x.dtype, <<size, Len(x.data)>>, [b \in 1..size |-> x.data])
  ELSE IF bdim = 0 THEN x
  ELSE moveaxis_to_front(x)

\* lax.pad on a rank-2 array.
lax_pad_2d(operand, padding_value, padding_config) ==
  LET lo(d) == padding_config[d][1]
      hi(d) == padding_config[d][2]
      interior(d) == padding_config[d][3]
      dilated(d) == dilate_dim(operand.shape[d], interior(d) + 1)
      out_len(d) == lo(d) + hi(d) + dilated(d)
      inside(d, q) == LET p == q - 1 - lo(d)
                      IN p >= 0 /\ p < dilated(d) /\ p % (interior(d) + 1) = 0
      src(d, q) == ((q - 1 - lo(d)) \div (interior(d) + 1)) + 1
  IN IF \E d \in 1..2 : interior(d) < 0 \/ out_len(d) < 0
     THEN Raise("ValueError")
     ELSE Ok(Array2(operand.dtype, <<out_len(1), out_len(2)>>,
            [q1 \in 1..out_len(1) |-> [q2 \in 1..out_len(2) |->
               IF inside(1, q1) /\ inside(2, q2)
               THEN operand.data[src(1, q1)][src(2, q2)]
               ELSE padding_value]]))

\* slicing.slice on a rank-2 array.
lax_slice_2d(operand, start, limit, stride) ==
  LET n(d) == IF limit[d] > start[d]
              THEN ((limit[d] - start[d] - 1) \div stride[d]) + 1 ELSE 0
      at(d, q) == start[d] + (q - 1) * stride[d] + 1
  IN IF \E d \in 1..2 : start[d] < 0 \/ limit[d] > operand.shape[d]
                          \/ start[d] > limit[d] \/ stride[d] < 1
     THEN Raise("TypeError")
     ELSE Ok(Array2(operand.dtype, <<n(1), n(2)>>,
            [q1 \in 1..n(1) |-> [q2 \in 1..n(2) |->
               operand.data[at(1, q1)][at(2, q2)]]]))

\* mhlo.ReduceWindowOp on rank-2 data: the window's slots are visited in
\* row-major order.
ReduceWindowOp_2d(out_shape, operand, operand_shape, init_value, reducer, window_dimensions, window_strides, base_dilations, window_dilations, padding) ==
  LET dilated(d) == dilate_dim(operand_shape[d], base_dilations[d])
      inside(d, q) == LET p == q - padding[d][1]
                      IN p >= 0 /\ p < dilated(d) /\ p % base_dilations[d] = 0
      src(d, q) == ((q - padding[d][1]) \div base_dilations[d]) + 1
      elem(q1, q2) == IF inside(1, q1) /\ inside(2, q2)
                      THEN operand[src(1, q1)][src(2, q2)]
                      ELSE init_value
      slots == window_dimensions[1] * window_dimensions[2]
      window(j1, j2) ==
        LET acc[t \in 0..slots] ==
              IF t = 0 THEN init_value
              ELSE LET k1 == (t - 1) \div window_dimensions[2]
                       k2 == (t - 1) % window_dimensions[2]
                       e == elem((j1 - 1) * window_strides[1]
                                   + k1 * window_dilations[1],
                                 (j2 - 1) * window_strides[2]
                                   + k2 * window_dilations[2])
                   IN IF call.xla_order = "acc_first"
                      THEN ApplyRegion(reducer, acc[t - 1], e)
                      ELSE ApplyRegion(reducer, e, acc[t - 1])
        IN acc[slots]
  IN [j1 \in 1..out_shape[1] |-> [j2 \in 1..out_shape[2] |-> window(j1, j2)]]

\* mhlo.SelectAndScatterOp on rank-2 data: window slots and source elements
\* are visited in row-major order; a position is a pair, <<0, 0>> for none.
SelectAndScatterOp_2d(operand, operand_shape, source, source_shape, init_value, select_prim, scatter, dtype, window_dimensions, window_strides, padding) ==
  LET slots == window_dimensions[1] * window_dimensions[2]
      pos(j1, j2, t) ==
        <<(j1 - 1) * window_strides[1] + ((t - 1) \div window_dimensions[2])
            - padding[1][1] + 1,
          (j2 - 1) * window_strides[2] + ((t - 1) % window_dimensions[2])
            - padding[2][1] + 1>>
      inb(p) == /\ p[1] >= 1 /\ p[1] =< operand_shape[1]
                /\ p[2] >= 1 /\ p[2] =< operand_shape[2]
      selected(j1, j2) ==
        LET sel[t \in 0..slots] ==
              IF t = 0 THEN <<0, 0>>
              ELSE LET p == pos(j1, j2, t)
                       s == sel[t - 1]
                   IN IF ~inb(p) THEN s
                      ELSE IF s = <<0, 0>> THEN p
                      ELSE IF select_prim_bind(select_prim,
                                operand[s[1]][s[2]], operand[p[1]][p[2]])
                           THEN s ELSE p
        IN sel[slots]
      sources == source_shape[1] * source_shape[2]
      scattered(i1, i2) ==
        LET acc[u \in 0..sources] ==
              IF u = 0 THEN init_value
              ELSE LET j1 == ((u - 1) \div source_shape[2]) + 1
                       j2 == ((u - 1) % source_shape[2]) + 1
                   IN IF selected(j1, j2) = <<i1, i2>>
                      THEN IF scatter = "lax.bitwise_or"
                           THEN max_mhlo(dtype, acc[u - 1], source[j1][j2])
                           ELSE AddOp(dtype, acc[u - 1], source[j1][j2])
                      ELSE acc[u - 1]
        IN acc[sources]
  IN [i1 \in 1..operand_shape[1] |-> [i2 \in 1..operand_shape[2] |->
        scattered(i1, i2)]]

(***************************************************************************)
(* The primitives bound on rank-2 operands.                                *)
(***************************************************************************)
_reduce_window_lower_2d(reduce_op, aval_out_shape, operand, window_dimensions, window_strides, padding, base_dilation, window_dilation) ==
  Array2(operand.dtype, aval_out_shape,
         ReduceWindowOp_2d(aval_out_shape, operand.data, operand.shape,
                           LoweringInit(reduce_op, operand.dtype),
                           Region(reduce_op, operand.dtype, "none"),
                           window_dimensions, window_strides, base_dilation,
                           window_dilation, padding))

\* reduce_window(operand, ...) for reduce_window one of _reduce_window_sum,
\* _reduce_window_max and _reduce_window_min: the primitive's shape rule,
\* then its lowering.
monoid_reducer_call_2d(monoid_reducer, operand, window_dimensions, window_strides, padding, base_dilation, window_dilation) ==
  LET shape == IF monoid_reducer = "_reduce_window_sum"
               THEN _reduce_window_sum_shape_rule(operand, window_dimensions,
                      window_strides, padding, base_dilation, window_dilation)
               ELSE _common_reduce_window_shape_rule(ShapeOf(operand),
                      window_dimensions, window_strides, padding,
                      base_dilation, window_dilation)
      reduce_op == CASE monoid_reducer = "_reduce_window_sum" -> "AddOp"
                     [] monoid_reducer = "_reduce_window_max" -> "max_mhlo"
                     [] monoid_reducer = "_reduce_window_min" -> "min_mhlo"
  IN IF ~IsOk(shape) THEN shape
     ELSE Ok(_reduce_window_lower_2d(reduce_op, shape.val, operand,
               window_dimensions, window_strides, padding, base_dilation,
               window_dilation))

_generic_reduce_window_lower_2d(aval_out_shape, operands, init_values, jaxpr, window_dimensions, window_strides, padding, base_dilation, window_dilation) ==
  LET num == Len(operands)
      zipped == [i \in 1..operands[1].shape[1] |->
                   [j \in 1..operands[1].shape[2] |->
                      [k \in 1..num |-> operands[k].data[i][j]]]]
      inits == [k \in 1..num |-> init_values[k].val]
      rw == ReduceWindowOp_2d(aval_out_shape, zipped, operands[1].shape,
                              inits, jaxpr, window_dimensions, window_strides,
                              base_dilation, window_dilation, padding)
  IN [k \in 1..num |->
        Array2(operands[k].dtype, aval_out_shape,
               [i \in 1..aval_out_shape[1] |->
                  [j \in 1..aval_out_shape[2] |-> rw[i][j][k]]])]

reduce_window_p_bind_2d(operands, init_values, jaxpr, window_dimensions, window_strides, padding, base_dilation, window_dilation) ==
  LET avals_out == _reduce_window_abstract_eval_rule(operands, init_values,
                     window_dimensions, window_strides, padding,
                     base_dilation, window_dilation)
  IN IF ~IsOk(avals_out) THEN avals_out
     ELSE Ok(_generic_reduce_window_lower_2d(avals_out.val[1].shape, operands,
               init_values, jaxpr, window_dimensions, window_strides,
               padding, base_dilation, window_dilation))

_select_and_scatter_2d(operand, select_prim, window_dimensions, window_strides, padding, source, init_value, scatter) ==
  LET shape == _select_and_scatter_shape_rule(operand, window_dimensions,
                                              window_strides)
  IN IF ~IsOk(shape) THEN shape
     ELSE Ok(Array2(operand.dtype, operand.shape,
               SelectAndScatterOp_2d(operand.data, operand.shape, source.data,
                 source.shape, init_value, select_prim, scatter,
                 operand.dtype, window_dimensions, window_strides, padding)))

_select_and_scatter_add_impl_2d(source, operand, select_prim, window_dimensions, window_strides, padding, expand_padding) ==
  LET dtype == source.dtype
      scatter == IF dtype = "bool" THEN "lax.bitwise_or" ELSE "lax.add"
      identity == IF select_prim = "ge_p" THEN _get_max_identity(dtype)
                  ELSE _get_min_identity(dtype)
      pads == [i \in 1..Len(padding) |-> <<padding[i][1], padding[i][2], 0>>]
      padded == IF expand_padding THEN lax_pad_2d(operand, identity, pads)
                ELSE Ok(operand)
      padding2 == IF expand_padding THEN ZeroPads(Len(padding)) ELSE padding
  IN IF ~IsOk(padded) THEN padded
     ELSE LET out == _select_and_scatter_2d(padded.val, select_prim,
                       window_dimensions, window_strides, padding2, source,
                       _zero(operand.dtype), scatter)
          IN IF ~IsOk(out) \/ ~expand_padding THEN out
             ELSE lax_slice_2d(out.val, unzip_lo(padding),
                    [i \in 1..Len(padding) |->
                       padding[i][1] + ShapeOf(operand)[i]],
                    Ones(Len(padding)))

_select_and_scatter_add_2d(source, operand, select_prim, window_dimensions, window_strides, padding) ==
  _select_and_scatter_add_impl_2d(source, operand, select_prim,
    window_dimensions, window_strides, padding,
    call.platform \in {"cpu", "gpu"})

_select_and_gather_add_using_variadic_reducewindow_2d(tangents, operand, select_prim, window_dimensions, window_strides, padding, base_dilation, window_dilation) ==
  LET init == SelectInit(select_prim)
      outs == reduce_window_p_bind_2d(<<operand, tangents>>,
                <<ConcreteScalar(operand.dtype, init),
                  ConcreteScalar(operand.dtype, PosZero)>>,
                Region("variadic_reducer", operand.dtype, select_prim),
                window_dimensions, window_strides, padding, base_dilation,
                window_dilation)
  IN IF IsOk(outs) THEN Ok(outs.val[2]) ELSE outs

_select_and_gather_add_lowering_2d(out_aval_shape, tangents, operand, select_prim, window_dimensions, window_strides, padding, base_dilation, window_dilation) ==
  LET init == SelectInit(select_prim)
      packed == [i \in 1..operand.shape[1] |-> [j \in 1..operand.shape[2] |->
                   pack(operand.data[i][j], tangents.data[i][j])]]
      rw == ReduceWindowOp_2d(out_aval_shape, packed, operand.shape,
                              pack(init, PosZero),
                              Region("packed_reducer", operand.dtype,
                                     select_prim),
                              window_dimensions, window_strides,
                              base_dilation, window_dilation, padding)
  IN Array2(operand.dtype, out_aval_shape,
            [i \in 1..out_aval_shape[1] |-> [j \in 1..out_aval_shape[2] |->
               snd(rw[i][j])]])

_select_and_gather_add_2d(tangents, operand, select_prim, window_dimensions, window_strides, padding, base_dilation, window_dilation) ==
  LET shape == _select_and_gather_add_shape_rule(tangents, operand,
                 window_dimensions, window_strides, padding, base_dilation,
                 window_dilation)
  IN IF ~IsOk(shape) THEN shape
     ELSE IF call.platform = "gpu"
     THEN Ok(_select_and_gather_add_lowering_2d(shape.val, tangents, operand,
               select_prim, window_dimensions, window_strides, padding,
               base_dilation, window_dilation))
     ELSE _select_and_gather_add_using_variadic_reducewindow_2d(tangents,
            operand, select_prim, window_dimensions, window_strides, padding,
            base_dilation, window_dilation)

(***************************************************************************)
(* The batching rules. A rule returns the batched output, the output's     *)
(* batch dimension, and (for the properties) the parameters it bound the   *)
(* primitive with.                                                         *)
(***************************************************************************)
BoundParams(window_dimensions, window_strides, padding, base_dilation, window_dilation) ==
  [window_dimensions |-> window_dimensions, window_strides |-> window_strides,
   padding |-> padding, base_dilation |-> base_dilation,
   window_dilation |-> window_dilation]

NothingBound == BoundParams(<<>>, <<>>, <<>>, <<>>, <<>>)

\* seq[:bdim] + (x,) + seq[bdim:]
InsertAt(seq, bdim, x) ==
  SubSeq(seq, 1, bdim) \o <<x>> \o SubSeq(seq, bdim + 1, Len(seq))

\* A plausible slip: the degenerate entries are always put in front.
_reduce_window_batch_rule_prepend(reduce_window_fn, operand, bdim, window_dimensions, window_strides, padding, base_dilation, window_dilation) ==
  LET wd == InsertAt(window_dimensions, 0, 1)
      ws == InsertAt(window_strides, 0, 1)
      pd == InsertAt(padding, 0, <<0, 0>>)
      bd == InsertAt(base_dilation, 0, 1)
      wdl == InsertAt(window_dilation, 0, 1)
  IN [out |-> monoid_reducer_call_2d(reduce_window_fn, operand, wd, ws, pd, bd,
                                     wdl),
      out_bdim |-> bdim,
      bound |-> BoundParams(wd, ws, pd, bd, wdl)]

\* _reduce_window_batch_rule with reduce_window_fn, its reduce_window
\* argument, one of _reduce_window_sum,
\* _reduce_window_max, _reduce_window_min; bdim is not None here.
_reduce_window_batch_rule(reduce_window_fn, operand, bdim, window_dimensions, window_strides, padding, base_dilation, window_dilation) ==
  LET wd == InsertAt(window_dimensions, bdim, 1)
      ws == InsertAt(window_strides, bdim, 1)
      pd == InsertAt(padding, bdim, <<0, 0>>)
      bd == InsertAt(base_dilation, bdim, 1)
      wdl == InsertAt(window_dilation, bdim, 1)
  IN [out |-> monoid_reducer_call_2d(reduce_window_fn, operand, wd, ws, pd, bd,
                                     wdl),
      out_bdim |-> bdim,
      bound |-> BoundParams(wd, ws, pd, bd, wdl)]

\* size = next(x.shape[ax] for x, ax in zip(args, bdims) if ax is not None)
BatchSize(args, bdims) ==
  LET first == CHOOSE i \in 1..Len(args) :
                 /\ bdims[i] # not_mapped
                 /\ \A i2 \in 1..(i - 1) : bdims[i2] = not_mapped
  IN args[first].shape[bdims[first] + 1]

\* A plausible slip: only the first init value's batch dimension is looked
\* at.
_generic_reduce_window_batch_rule_first_init(operands, init_values, operand_bdims, init_value_bdims, jaxpr, window_dimensions, window_strides, padding, base_dilation, window_dilation) ==
  IF init_value_bdims[1] # not_mapped
  THEN [out |-> Raise("NotImplementedError"), out_bdim |-> not_mapped,
        bound |-> NothingBound]
  ELSE LET size == BatchSize(operands, operand_bdims)
           operands2 == [i \in 1..Len(operands) |->
                           bdim_at_front(operands[i], operand_bdims[i], size)]
           wd == <<1>> \o window_dimensions
           ws == <<1>> \o window_strides
           pd == <<<<0, 0>>>> \o padding
           bd == <<1>> \o base_dilation
           wdl == <<1>> \o window_dilation
       IN [out |-> reduce_window_p_bind_2d(operands2, init_values, jaxpr,
                     wd, ws, pd, bd, wdl),
           out_bdim |-> 0,
           bound |-> BoundParams(wd, ws, pd, bd, wdl)]

\* out_bdims is (0,) * num_operands: one 0 for each output.
_generic_reduce_window_batch_rule(operands, init_values, operand_bdims, init_value_bdims, jaxpr, window_dimensions, window_strides, padding, base_dilation, window_dilation) ==
  IF \E i \in 1..Len(init_value_bdims) : init_value_bdims[i] # not_mapped
  THEN [out |-> Raise("NotImplementedError"), out_bdim |-> not_mapped,
        bound |-> NothingBound]
  ELSE LET size == BatchSize(operands, operand_bdims)
           operands2 == [i \in 1..Len(operands) |->
                           bdim_at_front(operands[i], operand_bdims[i], size)]
           wd == <<1>> \o window_dimensions
           ws == <<1>> \o window_strides
           pd == <<<<0, 0>>>> \o padding
           bd == <<1>> \o base_dilation
           wdl == <<1>> \o window_dilation
       IN [out |-> reduce_window_p_bind_2d(operands2, init_values, jaxpr,
                     wd, ws, pd, bd, wdl),
           out_bdim |-> 0,
           bound |-> BoundParams(wd, ws, pd, bd, wdl)]

_select_and_scatter_add_batch_rule(source, operand, s_bdim, o_bdim, select_prim, window_dimensions, window_strides, padding) ==
  LET size == BatchSize(<<source, operand>>, <<s_bdim, o_bdim>>)
      source2 == bdim_at_front(source, s_bdim, size)
      operand2 == bdim_at_front(operand, o_bdim, size)
      wd == <<1>> \o window_dimensions
      ws == <<1>> \o window_strides
      pd == <<<<0, 0>>>> \o padding
  IN [out |-> _select_and_scatter_add_2d(source2, operand2, select_prim, wd,
                                         ws, pd),
      out_bdim |-> 0,
      bound |-> BoundParams(wd, ws, pd, <<>>, <<>>)]

_select_and_gather_add_batching_rule(t, x, t_bdim, x_bdim, select_prim, window_dimensions, window_strides, padding, base_dilation, window_dilation) ==
  LET size == BatchSize(<<t, x>>, <<t_bdim, x_bdim>>)
      t2 == bdim_at_front(t, t_bdim, size)
      x2 == bdim_at_front(x, x_bdim, size)
      wd == <<1>> \o window_dimensions
      ws == <<1>> \o window_strides
      pd == <<<<0, 0>>>> \o padding
      bd == <<1>> \o base_dilation
      wdl == <<1>> \o window_dilation
  IN [out |-> _select_and_gather_add_2d(t2, x2, select_prim, wd, ws, pd, bd,
                                        wdl),
      out_bdim |-> 0,
      bound |-> BoundParams(wd, ws, pd, bd, wdl)]

(***************************************************************************)
(* Specification SpecBatch: one primitive of the family under a batch axis *)
(* of size MaxBatch (its batching rule runs on the batched arguments), and *)
(* the same primitive on every slice of the arguments.                     *)
(***************************************************************************)
MaxBatch == 2

\* The rows a batched operand is stacked from: increasing finite values,
\* decreasing values ending in the identity of max, and ties with a NaN.
BatchRows(n) ==
  {[i \in 1..n |-> i + 1],
   [i \in 1..n |-> IF i = n THEN NegInf ELSE PosInf - i],
   [i \in 1..n |-> IF i = 2 THEN QNaN ELSE PosOne]}

\* jnp.stack(rows, axis=bdim)
Stack(dtype, rows, n, bdim) ==
  IF bdim = 0 THEN Array2(dtype, <<Len(rows), n>>, rows)
  ELSE Array2(dtype, <<n, Len(rows)>>,
              [i \in 1..n |-> [b \in 1..Len(rows) |-> rows[b][i]]])

\* Slice b of an argument along its batch dimension; an argument without
\* one is the same in every slice.
Unstack(x, bdim, b) ==
  IF bdim = not_mapped THEN x
  ELSE IF bdim = 0 THEN Array(x.dtype, x.data[b])
  ELSE Array(x.dtype, [i \in 1..x.shape[1] |-> x.data[i][b]])

\* An operand of slice extent n with batch dimension bdim.
BatchedOperands(n, bdim) ==
  IF bdim = not_mapped THEN {Array("float", r) : r \in BatchRows(n)}
  ELSE {Stack("float", rows, n, bdim) : rows \in [1..MaxBatch -> BatchRows(n)]}

\* The second argument (tangents, source, second operand) of slice extent m:
\* a different finite non-zero value at every position of every slice.
SecondArgument(m, bdim) ==
  IF bdim = not_mapped THEN TangentRamp(m)
  ELSE Stack("float",
             [b \in 1..MaxBatch |->
                IF b % 2 = 1 THEN TangentRamp(m).data ELSE TangentsFor(m).data],
             m, bdim)

Bdims == {not_mapped, 0, 1}
MappedPairs == {p \in Bdims \X Bdims : p # <<not_mapped, not_mapped>>}

\* Window geometry of the unbatched primitive.
BatchGeometry ==
  [window_dimensions : {<<w>> : w \in 1..MaxWindow},
   window_strides : {<<st>> : st \in ReduceStrides},
   padding : {<<pd>> : pd \in ReducePads},
   dilations : {<<1, 1>>, <<2, 1>>, <<1, 2>>}]

BatchCall(rule, fn, batched_args, batch_dims, init_values, init_value_bdims, select_prim, g, platform, xla_order) ==
  [rule |-> rule, fn |-> fn, batched_args |-> batched_args,
   batch_dims |-> batch_dims, init_values |-> init_values,
   init_value_bdims |-> init_value_bdims, select_prim |-> select_prim,
   window_dimensions |-> g.window_dimensions,
   window_strides |-> g.window_strides, padding |-> g.padding,
   base_dilation |-> <<g.dilations[1]>>,
   window_dilation |-> <<g.dilations[2]>>,
   platform |-> platform, xla_order |-> xla_order]

\* reduce_window_sum / max / min on one batched operand.
MonoidBatchCalls(bdim) ==
  {BatchCall("_reduce_window_batch_rule", fn, <<x>>, <<bdim>>, <<>>, <<>>,
             "none", g, "cpu", o) :
     fn \in MonoidReducers, g \in BatchGeometry, o \in XlaOrders,
     x \in UNION {BatchedOperands(n, bdim) : n \in 0..MaxLen}}

\* The generic primitive on one operand (combiner lax.add or lax.min, init
\* value 1.0); the init value may carry a batch dimension, and then the
\* operand need not.
GenericBatchCalls(bdim, init_bdim) ==
  {BatchCall("_generic_reduce_window_batch_rule", fn, <<x>>, <<bdim>>,
             <<ConcreteScalar("float", PosOne)>>, <<init_bdim>>, "none", g,
             "cpu", o) :
     fn \in {"lax.add", "lax.min"}, g \in BatchGeometry, o \in XlaOrders,
     x \in BatchedOperands(MaxLen, bdim)}

\* The generic primitive on a pair of operands with the (key, value) reducer.
VariadicBatchCalls(bdims, init_bdim) ==
  {BatchCall("_generic_reduce_window_batch_rule", "variadic_reducer",
             <<x, SecondArgument(MaxLen, bdims[2])>>, bdims,
             <<ConcreteScalar("float", SelectInit("ge_p")),
               ConcreteScalar("float", PosZero)>>,
             <<not_mapped, init_bdim>>, "ge_p", g, "cpu", o) :
     g \in BatchGeometry, o \in XlaOrders,
     x \in BatchedOperands(MaxLen, bdims[1])}

\* The extent of the source for an operand of extent n.
SourceExtent(n, g) ==
  PooledShape(Array("float", [i \in 1..n |-> PosZero]), g.window_dimensions,
              g.window_strides, g.padding)

\* select_and_scatter_add on (source, operand) of slice extent n.
ScatterBatchCalls(n, bdims) ==
  {BatchCall("_select_and_scatter_add_batch_rule", "none",
             <<SecondArgument(SourceExtent(n, g).val[1], bdims[1]), x>>,
             bdims, <<>>, <<>>, sel, g, platform, "acc_first") :
     sel \in {"ge_p", "le_p"}, platform \in {"tpu", "cpu"},
     g \in {gg \in BatchGeometry :
              gg.dilations = <<1, 1>> /\ IsOk(SourceExtent(n, gg))},
     x \in BatchedOperands(n, bdims[2])}

\* select_and_gather_add on (tangents, operand) of slice extent n.
GatherBatchCalls(n, bdims) ==
  {BatchCall("_select_and_gather_add_batching_rule", "none",
             <<SecondArgument(n, bdims[1]), x>>, bdims, <<>>, <<>>, sel, g,
             platform, o) :
     sel \in {"ge_p", "le_p"}, platform \in {"cpu", "gpu"},
     g \in BatchGeometry, o \in XlaOrders,
     x \in BatchedOperands(n, bdims[2])}

BatchInit ==
  /\ pc = "call"
  /\ \/ \E bdim \in {0, 1} : call \in MonoidBatchCalls(bdim)
     \/ \E bdim \in Bdims, init_bdim \in {not_mapped, 0} :
          /\ bdim # not_mapped \/ init_bdim # not_mapped
          /\ call \in GenericBatchCalls(bdim, init_bdim)
     \/ \E bdims \in MappedPairs, init_bdim \in {not_mapped, 0} :
          call \in VariadicBatchCalls(bdims, init_bdim)
     \/ \E n \in 0..MaxLen, bdims \in MappedPairs :
          call \in ScatterBatchCalls(n, bdims)
     \/ \E n \in 1..MaxLen, bdims \in MappedPairs :
          call \in GatherBatchCalls(n, bdims)
  /\ ret = [batched |-> NoResult, out_bdim |-> not_mapped,
            bound |-> NothingBound, unbatched |-> <<>>]

Batched(r) ==
  [ret EXCEPT !.batched = r.out, !.out_bdim = r.out_bdim, !.bound = r.bound]

\* batching.primitive_batchers[reduce_window_sum_p / max_p / min_p]
BatchMonoid ==
  /\ pc = "call"
  /\ call.rule = "_reduce_window_batch_rule"
  /\ ret' = Batched(_reduce_window_batch_rule(call.fn, call.batched_args[1],
                      call.batch_dims[1], call.window_dimensions,
                      call.window_strides, call.padding, call.base_dilation,
                      call.window_dilation))
  /\ pc' = "batched"
  /\ UNCHANGED call

\* batching.primitive_batchers[reduce_window_p]
BatchGeneric ==
  /\ pc = "call"
  /\ call.rule = "_generic_reduce_window_batch_rule"
  /\ ret' = Batched(_generic_reduce_window_batch_rule(call.batched_args,
                      call.init_values, call.batch_dims,
                      call.init_value_bdims,
                      Region(call.fn, "float", call.select_prim),
                      call.window_dimensions, call.window_strides,
                      call.padding, call.base_dilation, call.window_dilation))
  /\ pc' = "batched"
  /\ UNCHANGED call

\* batching.primitive_batchers[select_and_scatter_add_p]
BatchScatterAdd ==
  /\ pc = "call"
  /\ call.rule = "_select_and_scatter_add_batch_rule"
  /\ ret' = Batched(_select_and_scatter_add_batch_rule(call.batched_args[1],
                      call.batched_args[2], call.batch_dims[1],
                      call.batch_dims[2], call.select_prim,
                      call.window_dimensions, call.window_strides,
                      call.padding))
  /\ pc' = "batched"
  /\ UNCHANGED call

\* batching.primitive_batchers[select_and_gather_add_p]
BatchGatherAdd ==
  /\ pc = "call"
  /\ call.rule = "_select_and_gather_add_batching_rule"
  /\ ret' = Batched(_select_and_gather_add_batching_rule(call.batched_args[1],
                      call.batched_args[2], call.batch_dims[1],
                      call.batch_dims[2], call.select_prim,
                      call.window_dimensions, call.window_strides,
                      call.padding, call.base_dilation, call.window_dilation))
  /\ pc' = "batched"
  /\ UNCHANGED call

\* The primitive of the call bound on slice b of the arguments.
UnbatchedCall(b) ==
  LET arg(i) == Unstack(call.batched_args[i], call.batch_dims[i], b)
  IN CASE call.rule = "_reduce_window_batch_rule" ->
            monoid_reducer_call(call.fn, arg(1), call.window_dimensions,
              call.window_strides, call.padding, call.base_dilation,
              call.window_dilation)
       [] call.rule = "_generic_reduce_window_batch_rule" ->
            reduce_window_p_bind([i \in 1..Len(call.batched_args) |-> arg(i)],
              call.init_values, Region(call.fn, "float", call.select_prim),
              call.window_dimensions, call.window_strides, call.padding,
              call.base_dilation, call.window_dilation)
       [] call.rule = "_select_and_scatter_add_batch_rule" ->
            _select_and_scatter_add(arg(1), arg(2), call.select_prim,
              call.window_dimensions, call.window_strides, call.padding)
       [] call.rule = "_select_and_gather_add_batching_rule" ->
            _select_and_gather_add(arg(1), arg(2), call.select_prim,
              call.window_dimensions, call.window_strides, call.padding,
              call.base_dilation, call.window_dilation)

\* The MaxBatch unbatched invocations, for a rule that bound its primitive.
BindSlices ==
  /\ pc = "batched"
  /\ ret.bound # NothingBound
  /\ ret' = [ret EXCEPT !.unbatched = [b \in 1..MaxBatch |-> UnbatchedCall(b)]]
  /\ pc' = "done"
  /\ UNCHANGED call

BatchNext ==
  BatchMonoid \/ BatchGeneric \/ BatchScatterAdd \/ BatchGatherAdd
    \/ BindSlices

SpecBatch == BatchInit /\ [][BatchNext]_vars

(***************************************************************************)
(* Properties of the batching rules (checked under SpecBatch).             *)
(***************************************************************************)

\* The axis of the batch in the operands the rule bound the primitive on.
BoundBatchAxis ==
  IF call.rule = "_reduce_window_batch_rule" THEN call.batch_dims[1] ELSE 0

\* seq without its entry for axis ax.
RemoveAt(seq, ax) == SubSeq(seq, 1, ax) \o SubSeq(seq, ax + 2, Len(seq))

\* seq is original with one entry, the degenerate one, added at the batch
\* axis, so that its length is the batched rank.
DegenerateAtBatchAxis(seq, original, degenerate) ==
  /\ Len(seq) = Len(original) + 1
  /\ Len(seq) = Len(ShapeOf(call.batched_args[1])) + 
                  (IF call.batch_dims[1] = not_mapped THEN 1 ELSE 0)
  /\ seq[BoundBatchAxis + 1] = degenerate
  /\ RemoveAt(seq, BoundBatchAxis) = original

BoundGeometryDegenerate ==
  /\ DegenerateAtBatchAxis(ret.bound.window_dimensions,
                           call.window_dimensions, 1)
  /\ DegenerateAtBatchAxis(ret.bound.window_strides, call.window_strides, 1)
  /\ DegenerateAtBatchAxis(ret.bound.padding, call.padding, <<0, 0>>)
  /\ call.rule # "_select_and_scatter_add_batch_rule" =>
       /\ DegenerateAtBatchAxis(ret.bound.base_dilation, call.base_dilation, 1)
       /\ DegenerateAtBatchAxis(ret.bound.window_dilation,
                                call.window_dilation, 1)

\* The outputs of a primitive invocation as a sequence (reduce_window_p has
\* multiple results).
OutputsOf(r) ==
  IF call.rule = "_generic_reduce_window_batch_rule" THEN r.val ELSE <<r.val>>

\* Slice b of the batched outputs, along the batch dimension the rule
\* reports, is what the unbatched invocation on slice b returns; and the
\* batched invocation raises exactly when the unbatched ones do.
SliceAgrees(b) ==
  IF IsOk(ret.batched)
  THEN /\ IsOk(ret.unbatched[b])
       /\ Len(OutputsOf(ret.batched)) = Len(OutputsOf(ret.unbatched[b]))
       /\ \A i \in 1..Len(OutputsOf(ret.batched)) :
            /\ ShapeOf(OutputsOf(ret.batched)[i])[ret.out_bdim + 1] = MaxBatch
            /\ Unstack(OutputsOf(ret.batched)[i], ret.out_bdim, b)
                 = OutputsOf(ret.unbatched[b])[i]
  ELSE ret.unbatched[b].err = ret.batched.err

\* C12: for each batching rule of the family, the operation on operands
\* carrying a batch axis of size k at any position gives, along the output
\* batch dimension the rule reports, exactly the stack of the k unbatched
\* invocations; and the rule binds the primitive with one degenerate entry
\* (window 1, stride 1, padding (0, 0), dilation 1) added at the batch axis
\* to every geometry sequence, all of them of length the batched rank.
C12_BatchIsStack ==
  /\ (pc # "call" /\ ret.bound # NothingBound) => BoundGeometryDegenerate
  /\ pc = "done" => \A b \in 1..MaxBatch : SliceAgrees(b)

\* reduce_window_max batched along axis 1: overlapping padded windows, and
\* two slices with different results.
C12_Witness ==
  /\ pc = "done"
  /\ call.rule = "_reduce_window_batch_rule"
  /\ call.fn = "_reduce_window_max"
  /\ call.batch_dims = <<1>>
  /\ call.window_dimensions = <<2>>
  /\ call.window_strides = <<1>>
  /\ call.padding = <<<<1, 0>>>>
  /\ ret.bound.window_dimensions = <<2, 1>>
  /\ ret.out_bdim = 1
  /\ IsOk(ret.batched)
  /\ ShapeOf(ret.batched.val) = <<MaxLen, MaxBatch>>
  /\ Unstack(ret.batched.val, 1, 1) # Unstack(ret.batched.val, 1, 2)
  /\ \A b \in 1..MaxBatch : SliceAgrees(b)

\* C18: the generic reduce_window batching rule raises NotImplementedError
\* whenever some init value carries a batch dimension, whatever the
\* operands' batch dimensions are, and binds no primitive.
C18_BatchedInitRejected ==
  (pc # "call" /\ call.rule = "_generic_reduce_window_batch_rule"
     /\ \E i \in 1..Len(call.init_value_bdims) :
          call.init_value_bdims[i] # not_mapped) =>
    /\ ret.batched = Raise("NotImplementedError")
    /\ ret.bound = NothingBound
    /\ pc = "batched"

\* A pair of operands batched along different axes, the first init value
\* unbatched and the second one batched: the rule raised.
C18_Witness ==
  /\ pc = "batched"
  /\ call.rule = "_generic_reduce_window_batch_rule"
  /\ call.batch_dims = <<1, 0>>
  /\ call.init_value_bdims = <<not_mapped, 0>>
  /\ ret.batched = Raise("NotImplementedError")
  /\ ret.bound = NothingBound

(***************************************************************************)
(* Properties of reduce_window's handling of nested operands and of its    *)
(* configuration errors (checked under SpecMonoid).                        *)
(***************************************************************************)

\* The call passes every configuration check of reduce_window: the operand
\* and init-value trees are the same and not empty, and on the generic path
\* the combiner's output tree is the operands' tree.
Accepted ==
  /\ call.operand_tree = call.init_value_tree
  /\ NumLeaves(call.operand_tree) >= 1
  /\ NumLeaves(call.operand_tree) = Len(call.flat_init_values)
  /\ (ret.monoid_reducer \notin MonoidReducers) =>
       call.operand_tree = call.out_tree

\* C13 as stated: for every accepted call, on the fast path and on the
\* generic path, the primitive is bound on the flattened operands and the
\* value returned has the tree structure of the operands.
C13_AsStated ==
  (pc = "returned" /\ Accepted) =>
    /\ ret.raised = "none"
    /\ ret.operands_bound = "flat_operands" \/ call.operand_tree = "leaf"
    /\ ret.returned_tree = call.operand_tree

\* Where C13 holds: on the generic path, and on the fast path when the
\* operand is given as a bare array.
C13_GenericOrBareOperand ==
  (pc = "returned" /\ Accepted
     /\ (ret.monoid_reducer \notin MonoidReducers
           \/ call.operand_tree = "leaf")) =>
    /\ ret.raised = "none"
    /\ ret.operands_bound = "flat_operands" \/ call.operand_tree = "leaf"
    /\ ret.returned_tree = call.operand_tree

\* The configuration errors of reduce_window, in the order of its checks.
TreesDiffer == call.operand_tree # call.init_value_tree
NoOperands == NumLeaves(call.operand_tree) = 0
CountsDiffer == NumLeaves(call.operand_tree) # Len(call.flat_init_values)
OutTreeDiffers ==
  /\ _get_monoid_window_reducer(call.computation, call.flat_init_values)
       \notin MonoidReducers
  /\ call.operand_tree # call.out_tree

\* C15: reduce_window raises ValueError, and binds no primitive, when the
\* operand tree differs from the init-value tree, when there is no operand,
\* when the operand and init-value counts differ, or, on the generic path,
\* when the combiner's output tree differs from the operand tree.
C15_ConfigurationErrors ==
  (pc = "returned"
     /\ (TreesDiffer \/ NoOperands \/ CountsDiffer \/ OutTreeDiffers)) =>
    /\ ret.raised = "ValueError"
    /\ ret.bound = "none"
    /\ ret.operands_bound = "none"
    /\ ret.returned_tree = "none"

\* A pair of operands with a pair of init values and a combiner that
\* returns a single array: every earlier check passes, the generic path is
\* taken and the output-tree check raises.
C15_Witness ==
  /\ pc = "returned"
  /\ call.operand_tree = "tuple2"
  /\ call.init_value_tree = "tuple2"
  /\ call.computation = "other"
  /\ call.out_tree = "leaf"
  /\ ~TreesDiffer /\ ~NoOperands /\ ~CountsDiffer /\ OutTreeDiffers
  /\ ret.raised = "ValueError"
  /\ ret.monoid_reducer = "None"
  /\ ret.bound = "none"

(***************************************************************************)
(* Specification SpecEval: the shape/type rule of the generic primitive on *)
(* the avals of one or two operands and as many init values.               *)
(***************************************************************************)
\* The avals of the init values: the operand's dtype or another one, rank 0
\* or rank 1.
InitAvals(dtypes) ==
  {ShapedArray(sh, d) : sh \in {<<>>, <<1>>}, d \in dtypes}

\* One operand of any dtype, or a float operand with a second operand whose
\* dtype and extent may differ from the first's.
EvalAvals ==
  UNION {[operand_avals : {<<ShapedArray(<<n>>, d)>>},
          init_val_avals : {<<iv>> : iv \in InitAvals(Dtypes)}] :
            n \in 0..MaxExtent, d \in Dtypes}
  \cup
  UNION {[operand_avals : {<<ShapedArray(<<n>>, "float"), ShapedArray(<<m>>, d)>> :
                             m \in {n, n + 1}, d \in {"float", "int32"}},
          init_val_avals : {<<iv, iw>> : iv \in InitAvals({"float", "int32"}),
                                         iw \in InitAvals({"float", "int32"})}] :
            n \in 0..MaxExtent}

\* Geometry of rank 1, valid or not: a window of 0, a window wider than the
\* padded operand.
EvalGeometry ==
  [window_dimensions : {<<w>> : w \in 0..MaxWindow},
   window_strides : {<<st>> : st \in ReduceStrides},
   padding : {<<pd>> : pd \in ReducePads},
   base_dilation : {<<d>> : d \in ReduceDilations},
   window_dilation : {<<d>> : d \in ReduceDilations}]

EvalInit ==
  /\ pc = "bind"
  /\ \E a \in EvalAvals, g \in EvalGeometry :
       call = [operand_avals |-> a.operand_avals,
               init_val_avals |-> a.init_val_avals,
               window_dimensions |-> g.window_dimensions,
               window_strides |-> g.window_strides, padding |-> g.padding,
               base_dilation |-> g.base_dilation,
               window_dilation |-> g.window_dilation]
  /\ ret = NoResult

\* reduce_window_p.def_abstract_eval(_reduce_window_abstract_eval_rule)
AbstractEval ==
  /\ pc = "bind"
  /\ ret' = _reduce_window_abstract_eval_rule(call.operand_avals,
              call.init_val_avals, call.window_dimensions,
              call.window_strides, call.padding, call.base_dilation,
              call.window_dilation)
  /\ pc' = "evaluated"
  /\ UNCHANGED call

EvalNext == AbstractEval

SpecEval == EvalInit /\ [][EvalNext]_vars

\* Some operand's dtype is not its init value's, or some init value is not
\* of rank 0.
AvalMismatch ==
  \/ \E i \in 1..Len(call.operand_avals) :
       call.operand_avals[i].dtype # call.init_val_avals[i].dtype
  \/ \E i \in 1..Len(call.init_val_avals) :
       Len(call.init_val_avals[i].shape) # 0

\* The extents of the first operand and of the window after dilation.
EvalPaddedExtent ==
  dilate_dim(call.operand_avals[1].shape[1], call.base_dilation[1])
    + call.padding[1][1] + call.padding[1][2]
EvalDilatedWindow ==
  dilate_dim(call.window_dimensions[1], call.window_dilation[1])

\* The shared geometry is valid for the first operand: positive window and
\* stride, and a dilated window no wider than the padded extent.
EvalGeometryValid ==
  /\ call.window_dimensions[1] >= 1
  /\ call.window_strides[1] >= 1
  /\ EvalDilatedWindow =< EvalPaddedExtent

\* The windowed output shape of the first operand.
EvalShapeLaw ==
  <<((EvalPaddedExtent - EvalDilatedWindow) \div call.window_strides[1]) + 1>>

\* N outputs, output i with operand i's dtype and the windowed output shape.
ArityPreserved ==
  /\ IsOk(ret)
  /\ Len(ret.val) = Len(call.operand_avals)
  /\ \A i \in 1..Len(ret.val) :
       /\ ret.val[i].dtype = call.operand_avals[i].dtype
       /\ ret.val[i].shape = EvalShapeLaw

\* C14 as stated: the rule raises TypeError if some operand dtype differs
\* from its init value's dtype or some init value is not rank-0, and
\* otherwise returns exactly N outputs, output i having operand i's dtype
\* and the windowed output shape.
C14_AsStated ==
  pc = "evaluated" =>
    /\ AvalMismatch => ret.err = "TypeError"
    /\ ~AvalMismatch => ArityPreserved

\* C14 (amended): the rule raises TypeError if some operand dtype differs
\* from its init value's dtype or some init value is not rank-0; otherwise,
\* when the shared geometry is valid for the first operand's shape, it
\* returns exactly N outputs, output i having operand i's dtype and the
\* windowed output shape of the first operand; and otherwise it raises
\* TypeError.
C14_TypeRule ==
  pc = "evaluated" =>
    /\ AvalMismatch => ret.err = "TypeError"
    /\ (~AvalMismatch /\ EvalGeometryValid) => ArityPreserved
    /\ (~AvalMismatch /\ ~EvalGeometryValid) => ret.err = "TypeError"

\* Two operands of different dtypes and extents, each with a rank-0 init
\* value of its own dtype, and a strided, padded, dilated geometry.
C14_Witness ==
  /\ pc = "evaluated"
  /\ call.operand_avals = <<ShapedArray(<<MaxExtent>>, "float"),
                            ShapedArray(<<MaxExtent + 1>>, "int32")>>
  /\ call.init_val_avals = <<ShapedArray(<<>>, "float"),
                             ShapedArray(<<>>, "int32")>>
  /\ call.window_dimensions = <<2>>
  /\ call.window_strides = <<2>>
  /\ call.padding = <<<<1, 0>>>>
  /\ call.base_dilation = <<2>>
  /\ ret = Ok(<<ShapedArray(EvalShapeLaw, "float"),
                ShapedArray(EvalShapeLaw, "int32")>>)
  /\ EvalShapeLaw[1] >= 2

(***************************************************************************)
(* Specification SpecShape: the shape rules of the primitives on window    *)
(* geometry that may be malformed.                                         *)
(***************************************************************************)
_select_and_scatter_add_shape_rule(source, operand, select_prim, window_dimensions, window_strides, padding) ==
  Ok(ShapeOf(operand))

\* Sequences of length 0, 1 and 2 with entries from S; only a few of
\* length 2.
ShapeLikes(S) ==
  {<<>>} \cup {<<a>> : a \in S} \cup {<<1, 1>>, <<2, 1>>, <<1, 0>>}

\* Operand avals of rank 1 and 2, of a number dtype and of bool.
ShapeOperands ==
  {ShapedArray(sh, d) :
     sh \in {<<n>> : n \in 0..MaxExtent} \cup {<<n, 2>> : n \in 1..2},
     d \in {"float", "bool"}}

\* One (lo, hi) pair per operand dimension.
ShapePaddings(rank) ==
  IF rank = 1 THEN {<<<<0, 0>>>>, <<<<1, 0>>>>} ELSE {<<<<0, 0>>, <<0, 0>>>>}

ShapeInit ==
  /\ pc = "bind"
  /\ \E operand \in ShapeOperands :
       \E window_dimensions \in ShapeLikes(0 - 1 .. MaxWindow),
          window_strides \in ShapeLikes(0 - 1 .. MaxStride),
          base_dilation \in ShapeLikes(1 .. MaxDilation),
          window_dilation \in ShapeLikes(1 .. MaxDilation),
          padding \in ShapePaddings(Len(operand.shape)) :
         call = [operand |-> operand, window_dimensions |-> window_dimensions,
                 window_strides |-> window_strides, padding |-> padding,
                 base_dilation |-> base_dilation,
                 window_dilation |-> window_dilation]
  /\ ret = [rule |-> "none", shape |-> NoResult]

Ruled(rule, shape) ==
  /\ pc = "bind"
  /\ ret' = [rule |-> rule, shape |-> shape]
  /\ pc' = "ruled"
  /\ UNCHANGED call

\* reduce_window_p with one operand and a rank-0 init value of its dtype.
ShapeRuleGeneric ==
  Ruled("reduce_window",
        _reduce_window_abstract_eval_rule(
          <<call.operand>>, <<ShapedArray(<<>>, call.operand.dtype)>>,
          call.window_dimensions, call.window_strides, call.padding,
          call.base_dilation, call.window_dilation))

ShapeRuleSum ==
  Ruled("reduce_window_sum",
        _reduce_window_sum_shape_rule(
          call.operand, call.window_dimensions, call.window_strides,
          call.padding, call.base_dilation, call.window_dilation))

\* reduce_window_max_p and reduce_window_min_p
ShapeRuleChooser ==
  Ruled("reduce_window_max",
        _common_reduce_window_shape_rule(
          ShapeOf(call.operand), call.window_dimensions, call.window_strides,
          call.padding, call.base_dilation, call.window_dilation))

\* select_and_gather_add_p with tangents of the operand's shape.
ShapeRuleGatherAdd ==
  Ruled("select_and_gather_add",
        _select_and_gather_add_shape_rule(
          call.operand, call.operand, call.window_dimensions,
          call.window_strides, call.padding, call.base_dilation,
          call.window_dilation))

ShapeRuleScatter ==
  Ruled("select_and_scatter",
        _select_and_scatter_shape_rule(
          call.operand, call.window_dimensions, call.window_strides))

ShapeRuleScatterAdd ==
  Ruled("select_and_scatter_add",
        _select_and_scatter_add_shape_rule(
          call.operand, call.operand, "ge_p", call.window_dimensions,
          call.window_strides, call.padding))

ShapeNext ==
  \/ ShapeRuleGeneric
  \/ ShapeRuleSum
  \/ ShapeRuleChooser
  \/ ShapeRuleGatherAdd
  \/ ShapeRuleScatter
  \/ ShapeRuleScatterAdd

SpecShape == ShapeInit /\ [][ShapeNext]_vars

\* The primitives whose shape rule is, or ends in, the shared rule.
WindowedRules ==
  {"reduce_window", "reduce_window_sum", "reduce_window_max",
   "select_and_gather_add"}

HasNonPositive(obj) == \E i \in 1..Len(obj) : obj[i] =< 0

\* The malformations of C16.
MalformedWindow ==
  \/ Len(call.window_dimensions) # Len(call.operand.shape)
  \/ Len(call.window_strides) # Len(call.window_dimensions)
  \/ Len(call.base_dilation) # Len(call.window_dimensions)
  \/ Len(call.window_dilation) # Len(call.window_dimensions)
  \/ HasNonPositive(call.window_dimensions)
  \/ HasNonPositive(call.window_strides)

\* C16: the shape rule shared by reduce_window, reduce_window_sum/max/min
\* and select_and_gather_add raises TypeError, and returns no shape, when
\* window_dimensions' length differs from the operand rank, when
\* window_strides, base_dilation or window_dilation differ in length from
\* window_dimensions, or when a window_dimensions or window_strides entry
\* is <= 0; reduce_window_sum's rule also raises TypeError when the operand
\* dtype is not a number dtype.
C16_ShapeRuleErrors ==
  (pc = "ruled" /\ ret.rule \in WindowedRules) =>
    /\ MalformedWindow =>
         (ret.shape.err = "TypeError" /\ ret.shape.val = <<>>)
    /\ (ret.rule = "reduce_window_sum" /\ ~IsNumberDtype(call.operand.dtype)) =>
         (ret.shape.err = "TypeError" /\ ret.shape.val = <<>>)

\* The window-sum rule on a float operand of rank 1 with a stride of 0, all
\* lengths being right.
C16_Witness ==
  /\ pc = "ruled"
  /\ ret.rule = "reduce_window_sum"
  /\ call.operand = ShapedArray(<<MaxExtent>>, "float")
  /\ call.window_dimensions = <<2>>
  /\ call.window_strides = <<0>>
  /\ call.base_dilation = <<1>>
  /\ call.window_dilation = <<1>>
  /\ ret.shape = Raise("TypeError")

\* The malformations of C17: window_dimensions or window_strides of a
\* length other than the operand rank, or with an entry <= 0.
MalformedScatterWindow ==
  \/ Len(call.window_dimensions) # Len(call.operand.shape)
  \/ Len(call.window_strides) # Len(call.operand.shape)
  \/ HasNonPositive(call.window_dimensions)
  \/ HasNonPositive(call.window_strides)

\* C17 as stated: the shape rules of select_and_scatter and of
\* select_and_scatter_add raise an error, and produce no output shape, when
\* window_dimensions or window_strides has a length other than the operand
\* rank or an entry <= 0.
C17_AsStated ==
  (pc = "ruled"
     /\ ret.rule \in {"select_and_scatter", "select_and_scatter_add"}
     /\ MalformedScatterWindow) =>
    ~IsOk(ret.shape)

\* What the shape rule of select_and_scatter does reject: a negative entry,
\* and window_strides of another length than window_dimensions.
C17_ScatterRejects ==
  (pc = "ruled" /\ ret.rule = "select_and_scatter") =>
    (~IsOk(ret.shape) <=>
       \/ \E i \in 1..Len(call.window_dimensions) : call.window_dimensions[i] < 0
       \/ \E i \in 1..Len(call.window_strides) : call.window_strides[i] < 0
       \/ Len(call.window_dimensions) # Len(call.window_strides))

\* The shape rule of select_and_scatter_add returns the operand's shape for
\* every window geometry.
C17_ScatterAddAcceptsAll ==
  (pc = "ruled" /\ ret.rule = "select_and_scatter_add") =>
    ret.shape = Ok(call.operand.shape)

(***************************************************************************)
(* Specification SpecLower: what lowering select_and_gather_add emits for  *)
(* an operand dtype on a platform: the packing branch taken and the        *)
(* warnings issued.                                                        *)
(***************************************************************************)
FloatDtypes == {"float16", "bfloat16", "float32", "float64"}

\* dtypes.finfo(dtype).bits
finfo_bits(dtype) ==
  IF dtype = "float64" THEN 64 ELSE IF dtype = "float32" THEN 32 ELSE 16

\* The default of the max_bits parameter; the lowering is registered
\* without another value.
max_bits == 64

ReducedPrecisionWarning ==
  "Using reduced precision for gradient of reduce-window min/max operator"

AssertionFailed ==
  [raised |-> "AssertionError", warnings |-> <<>>, branch |-> "none",
   word_bits |-> 0, double_word_bits |-> 0]

\* A plausible slip: twice the width must be strictly less than max_bits.
_select_and_gather_add_lowering_branch_strict(dtype) ==
  LET nbits_of_dtype == finfo_bits(dtype)
      double_word_reduction == nbits_of_dtype * 2 < max_bits
  IN IF ~(nbits_of_dtype =< max_bits) THEN AssertionFailed
     ELSE IF double_word_reduction
     THEN [raised |-> "none", warnings |-> <<>>, branch |-> "double_word",
           word_bits |-> nbits_of_dtype,
           double_word_bits |-> nbits_of_dtype * 2]
     ELSE [raised |-> "none", warnings |-> <<ReducedPrecisionWarning>>,
           branch |-> "reduced_precision",
           word_bits |-> nbits_of_dtype,
           double_word_bits |-> nbits_of_dtype]

\* _select_and_gather_add_lowering up to the choice of pack, fst and snd:
\* the branch taken, the widths of word_dtype and double_word_dtype, and the
\* warnings issued.
_select_and_gather_add_lowering_branch(dtype) ==
  LET nbits_of_dtype == finfo_bits(dtype)
      double_word_reduction == nbits_of_dtype * 2 =< max_bits
  IN IF ~(nbits_of_dtype =< max_bits) THEN AssertionFailed
     ELSE IF double_word_reduction
     THEN [raised |-> "none", warnings |-> <<>>, branch |-> "double_word",
           word_bits |-> nbits_of_dtype,
           double_word_bits |-> nbits_of_dtype * 2]
     ELSE [raised |-> "none", warnings |-> <<ReducedPrecisionWarning>>,
           branch |-> "reduced_precision",
           word_bits |-> nbits_of_dtype,
           double_word_bits |-> nbits_of_dtype]

\* _select_and_gather_add_using_variadic_reducewindow packs nothing and
\* issues no warning.
_select_and_gather_add_using_variadic_reducewindow_branch(dtype) ==
  [raised |-> "none", warnings |-> <<>>, branch |-> "variadic",
   word_bits |-> finfo_bits(dtype), double_word_bits |-> 0]

LowerCalls ==
  [dtype : FloatDtypes, select_prim : {"ge_p", "le_p"}, platform : Platforms,
   operand_shape : {<<n>> : n \in 0..MaxLen},
   window_dimensions : {<<w>> : w \in 1..MaxWindow},
   window_strides : {<<st>> : st \in ReduceStrides},
   padding : {<<pd>> : pd \in ReducePads}]

LowerInit ==
  /\ pc = "bound"
  /\ call \in LowerCalls
  /\ ret = [lowering |-> "none", raised |-> "pending", warnings |-> <<>>,
            branch |-> "none", word_bits |-> 0, double_word_bits |-> 0]

Lowered(lowering, r) ==
  [lowering |-> lowering, raised |-> r.raised, warnings |-> r.warnings,
   branch |-> r.branch, word_bits |-> r.word_bits,
   double_word_bits |-> r.double_word_bits]

\* mlir.register_lowering(select_and_gather_add_p,
\*   _select_and_gather_add_lowering, platform="gpu")
LowerOnGpu ==
  /\ pc = "bound"
  /\ call.platform = "gpu"
  /\ ret' = Lowered("_select_and_gather_add_lowering",
                    _select_and_gather_add_lowering_branch(call.dtype))
  /\ pc' = "lowered"
  /\ UNCHANGED call

\* mlir.register_lowering(select_and_gather_add_p, mlir.lower_fun(
\*   _select_and_gather_add_using_variadic_reducewindow, ...))
LowerByDefault ==
  /\ pc = "bound"
  /\ call.platform # "gpu"
  /\ ret' = Lowered("_select_and_gather_add_using_variadic_reducewindow",
              _select_and_gather_add_using_variadic_reducewindow_branch(
                call.dtype))
  /\ pc' = "lowered"
  /\ UNCHANGED call

LowerNext == LowerOnGpu \/ LowerByDefault

SpecLower == LowerInit /\ [][LowerNext]_vars

Warned == ret.warnings # <<>>

\* C20: _select_and_gather_add_lowering issues the reduced-precision
\* warning exactly when it takes the reduced-precision packing branch, that
\* is if and only if 2 * nbits > max_bits; with max_bits = 64 it warns for
\* 64-bit operands and never for 16- and 32-bit operands; the two-output
\* lowering never warns.
C20_WarningIffFallback ==
  pc = "lowered" =>
    /\ ret.lowering = "_select_and_gather_add_lowering" =>
         /\ ret.raised = "none"
         /\ Warned <=> ret.branch = "reduced_precision"
         /\ Warned <=> 2 * finfo_bits(call.dtype) > max_bits
         /\ Warned <=> call.dtype = "float64"
         /\ Warned => ret.warnings = <<ReducedPrecisionWarning>>
    /\ ret.lowering = "_select_and_gather_add_using_variadic_reducewindow" =>
         ~Warned

\* A float64 operand lowered for gpu: the fallback is taken and the warning
\* issued.
C20_Witness ==
  /\ pc = "lowered"
  /\ call.dtype = "float64"
  /\ call.platform = "gpu"
  /\ ret.lowering = "_select_and_gather_add_lowering"
  /\ ret.branch = "reduced_precision"
  /\ ret.warnings = <<ReducedPrecisionWarning>>

(***************************************************************************)
(* Specification SpecJvp: the forward-mode rule of select_and_scatter_add  *)
(* applied twice to the same primals and source tangent, with two          *)
(* different operand tangents.                                             *)
(***************************************************************************)

\* A plausible slip: the operand tangent, when it is an array, takes the
\* operand's place in the tangent computation.
_select_and_scatter_add_jvp_uses_g_operand(source, operand, g_source, g_operand, select_prim, window_dimensions, window_strides, padding) ==
  LET val_out == _select_and_scatter_add(source, operand, select_prim,
                   window_dimensions, window_strides, padding)
  IN IF ~IsOk(val_out) THEN [val_out |-> val_out, tangent_out |-> val_out]
     ELSE [val_out |-> val_out,
           tangent_out |->
             IF IsZero(g_source)
             THEN Ok(Zero(ShapedArray(ShapeOf(val_out.val), val_out.val.dtype)))
             ELSE _select_and_scatter_add(g_source,
                    IF IsZero(g_operand) THEN operand ELSE g_operand,
                    select_prim, window_dimensions, window_strides, padding)]

\* primals = (source, operand), tangents = (g_source, g_operand); the result
\* is (val_out, tangent_out), or the exception of the first bind.
_select_and_scatter_add_jvp(source, operand, g_source, g_operand, select_prim, window_dimensions, window_strides, padding) ==
  LET val_out == _select_and_scatter_add(source, operand, select_prim,
                   window_dimensions, window_strides, padding)
  IN IF ~IsOk(val_out) THEN [val_out |-> val_out, tangent_out |-> val_out]
     ELSE [val_out |-> val_out,
           tangent_out |->
             IF IsZero(g_source)
             THEN Ok(Zero(ShapedArray(ShapeOf(val_out.val), val_out.val.dtype)))
             ELSE _select_and_scatter_add(g_source, operand, select_prim,
                    window_dimensions, window_strides, padding)]

\* Two different operand tangents: a symbolic zero and an array, or two
\* arrays.
OperandTangentPairs(operand) ==
  LET n == Len(operand.data)
      aval == ShapedArray(<<n>>, "float")
      ramp == Array("float", [i \in 1..n |-> i])
      rev == Array("float", [i \in 1..n |-> n + 1 - i])
      ones == Array("float", [i \in 1..n |-> PosOne])
  IN {<<Zero(aval), rev>>, <<ramp, ones>>}

JvpInit ==
  /\ pc = "call"
  /\ \E c \in ScatterCalls, platform \in {"tpu", "cpu"}, zero_g \in BOOLEAN :
       \E g \in OperandTangentPairs(c.operand) :
         call = [operand |-> c.operand, source |-> SourceFor(c),
                 g_source |-> IF zero_g
                              THEN Zero(ShapedArray(ShapeOf(SourceFor(c)), "float"))
                              ELSE TangentsFor(Len(SourceFor(c).data)),
                 g_operand |-> g,
                 select_prim |-> c.select_prim,
                 window_dimensions |-> c.window_dimensions,
                 window_strides |-> c.window_strides, padding |-> c.padding,
                 platform |-> platform]
  /\ ret = [first |-> [val_out |-> NoResult, tangent_out |-> NoResult],
            second |-> [val_out |-> NoResult, tangent_out |-> NoResult]]

\* ad.primitive_jvps[select_and_scatter_add_p] with the first operand
\* tangent.
JvpFirst ==
  /\ pc = "call"
  /\ ret' = [ret EXCEPT !.first =
       _select_and_scatter_add_jvp(call.source, call.operand, call.g_source,
         call.g_operand[1], call.select_prim, call.window_dimensions,
         call.window_strides, call.padding)]
  /\ pc' = "first"
  /\ UNCHANGED call

\* The same rule with the second operand tangent.
JvpSecond ==
  /\ pc = "first"
  /\ ret' = [ret EXCEPT !.second =
       _select_and_scatter_add_jvp(call.source, call.operand, call.g_source,
         call.g_operand[2], call.select_prim, call.window_dimensions,
         call.window_strides, call.padding)]
  /\ pc' = "second"
  /\ UNCHANGED call

JvpNext == JvpFirst \/ JvpSecond

SpecJvp == JvpInit /\ [][JvpNext]_vars

\* C21: in the forward-mode rule of select_and_scatter_add, two
\* applications with the same primals and source tangent but different
\* operand tangents return the same (value, tangent); the tangent is
\* select_and_scatter_add of the source tangent with the unchanged operand
\* and geometry, and a symbolic zero when the source tangent is one.
C21_OperandTangentIgnored ==
  pc = "second" =>
    /\ ret.first = ret.second
    /\ ret.first.val_out =
         _select_and_scatter_add(call.source, call.operand, call.select_prim,
           call.window_dimensions, call.window_strides, call.padding)
    /\ IsOk(ret.first.val_out) =>
         IF IsZero(call.g_source)
         THEN /\ IsOk(ret.first.tangent_out)
              /\ IsZero(ret.first.tangent_out.val)
         ELSE ret.first.tangent_out =
                _select_and_scatter_add(call.g_source, call.operand,
                  call.select_prim, call.window_dimensions,
                  call.window_strides, call.padding)

\* Overlapping padded windows over the example operand, an array source
\* tangent, operand tangents that order the positions differently and a
\* tangent with a non-zero element.
C21_Witness ==
  /\ pc = "second"
  /\ call.operand = ExampleOperand
  /\ call.window_dimensions = <<2>>
  /\ call.window_strides = <<1>>
  /\ call.padding = <<<<1, 0>>>>
  /\ ~IsZero(call.g_source)
  /\ ~IsZero(call.g_operand[1])
  /\ call.g_operand[1] # call.g_operand[2]
  /\ IsOk(ret.second.tangent_out)
  /\ \E i \in 1..Len(ret.second.tangent_out.val.data) :
       ret.second.tangent_out.val.data[i] \notin {PosZero, NegZero}
  /\ ret.first = ret.second

(***************************************************************************)
(* source_info_util: name stacks, source infos and the thread-local        *)
(* source-info context with its context managers.                          *)
(***************************************************************************)

\* Scope(name) and Transform(name), the elements of a NameStack.
Scope(name) == [kind |-> "Scope", name |-> name]
Transform(name) == [kind |-> "Transform", name |-> name]

\* NameStack.extend and NameStack.transform.
NameStack_extend(stack, name) == stack \o <<Scope(name)>>
NameStack_transform(stack, transform_name) == stack \o <<Transform(transform_name)>>

\* Optional arguments: None, or a value.
NoTraceback == "None"
NoNameStack == [given |-> FALSE, stack |-> <<>>]
SomeNameStack(stack) == [given |-> TRUE, stack |-> stack]

SourceInfo(traceback, name_stack) ==
  [traceback |-> traceback, name_stack |-> name_stack]

\* SourceInfo.replace: traceback = traceback or self.traceback; name_stack is
\* kept when the argument is None.
SourceInfo_replace(self, traceback, name_stack) ==
  SourceInfo(IF traceback # NoTraceback THEN traceback ELSE self.traceback,
             IF name_stack.given THEN name_stack.stack ELSE self.name_stack)

new_source_info == SourceInfo(NoTraceback, <<>>)

\* A plausible slip: the context object is an ordinary object, one for all
\* threads.
_source_info_context_shared(thread) == 1

\* _source_info_context is a threading.local: every thread has its own
\* context attribute, set by __init__ on the thread's first access.
_source_info_context(thread) == thread

\* xla_client.Traceback.get_traceback(): the calling thread's own stack.
get_traceback(thread) == "here"

\* current() and current_name_stack() as thread reads them.
current(context, thread) ==
  LET source_info == context[_source_info_context(thread)]
  IN IF source_info.traceback = NoTraceback
     THEN SourceInfo_replace(source_info, get_traceback(thread), NoNameStack)
     ELSE source_info
current_name_stack(context, thread) ==
  context[_source_info_context(thread)].name_stack

\* A with-block of one of the five context managers, with its arguments.
Block(manager, c, name, name_stack) ==
  [manager |-> manager, c |-> c, name |-> name, name_stack |-> name_stack]

\* The context a manager installs, from the context it found on entry.
NewContext(block, prev_context) ==
  CASE block.manager = "user_context" ->
         SourceInfo_replace(prev_context, block.c, block.name_stack)
    [] block.manager = "extend_name_stack" ->
         SourceInfo_replace(prev_context, NoTraceback,
           SomeNameStack(NameStack_extend(prev_context.name_stack, block.name)))
    [] block.manager = "set_name_stack" ->
         SourceInfo_replace(prev_context, NoTraceback, block.name_stack)
    [] block.manager = "reset_name_stack" ->
         SourceInfo_replace(prev_context, NoTraceback, SomeNameStack(<<>>))
    [] block.manager = "transform_name_stack" ->
         SourceInfo_replace(prev_context, NoTraceback,
           SomeNameStack(NameStack_transform(prev_context.name_stack,
                                             block.name)))

(***************************************************************************)
(* Specification SpecThreads: two threads enter and leave nested blocks of *)
(* the context managers and read the context, in every interleaving.       *)
(* call[t] is the nest of blocks thread t is in; ret holds the context     *)
(* objects, the prev_context local of every open block and what each       *)
(* thread read last.                                                       *)
(***************************************************************************)
MaxNesting == 2
Threads == {1, 2}

Blocks ==
  {Block("user_context", c, "", ns) :
     c \in {NoTraceback, "tb_user"},
     ns \in {NoNameStack, SomeNameStack(<<Scope("u")>>)}}
  \cup {Block("extend_name_stack", NoTraceback, "a", NoNameStack),
        Block("set_name_stack", NoTraceback, "", SomeNameStack(<<Scope("s")>>)),
        Block("reset_name_stack", NoTraceback, "", NoNameStack),
        Block("transform_name_stack", NoTraceback, "jvp", NoNameStack)}

Unread == [read |-> FALSE, name_stack |-> <<>>, source_info |-> new_source_info]

ThreadsInit ==
  /\ pc = [t \in Threads |-> "body"]
  /\ call = [t \in Threads |-> <<>>]
  /\ ret = [context |-> [t \in Threads |-> new_source_info],
            prev_context |-> [t \in Threads |-> <<>>],
            observed |-> [t \in Threads |-> Unread]]

\* With statement, first half: the manager reads the context into its
\* local prev_context.
EnterBlock ==
  \E t \in Threads, block \in Blocks :
    /\ pc[t] = "body"
    /\ Len(call[t]) < MaxNesting
    /\ call' = [call EXCEPT ![t] = Append(@, block)]
    /\ ret' = [ret EXCEPT
         !.prev_context[t] =
           Append(@, ret.context[_source_info_context(t)]),
         !.observed[t] = Unread]
    /\ pc' = [pc EXCEPT ![t] = "entering"]

\* Second half: the manager assigns the new context and yields.
InstallContext ==
  \E t \in Threads :
    /\ pc[t] = "entering"
    /\ LET depth == Len(call[t])
       IN ret' = [ret EXCEPT !.context[_source_info_context(t)] =
                    NewContext(call[t][depth], ret.prev_context[t][depth])]
    /\ pc' = [pc EXCEPT ![t] = "body"]
    /\ UNCHANGED call

\* The body of the innermost block ends: finally assigns prev_context back.
ExitBlock ==
  \E t \in Threads :
    /\ pc[t] = "body"
    /\ Len(call[t]) > 0
    /\ LET depth == Len(call[t])
       IN /\ ret' = [ret EXCEPT
               !.context[_source_info_context(t)] = ret.prev_context[t][depth],
               !.prev_context[t] = SubSeq(@, 1, depth - 1),
               !.observed[t] = Unread]
          /\ call' = [call EXCEPT ![t] = SubSeq(@, 1, depth - 1)]
    /\ UNCHANGED pc

\* A primitive is constructed in the body: the thread reads
\* current_name_stack() and current().
ReadContext ==
  \E t \in Threads :
    /\ pc[t] = "body"
    /\ ~ret.observed[t].read
    /\ ret' = [ret EXCEPT !.observed[t] =
         [read |-> TRUE, name_stack |-> current_name_stack(ret.context, t),
          source_info |-> current(ret.context, t)]]
    /\ UNCHANGED <<pc, call>>

ThreadsNext == EnterBlock \/ InstallContext \/ ExitBlock \/ ReadContext

SpecThreads == ThreadsInit /\ [][ThreadsNext]_vars

\* The context that a nest of blocks, entered in order from a fresh thread,
\* leaves installed.
ContextOfBlocks(blocks) ==
  LET ctx[i \in 0..Len(blocks)] ==
        IF i = 0 THEN new_source_info ELSE NewContext(blocks[i], ctx[i - 1])
  IN ctx[Len(blocks)]

\* C22: in every interleaving of the blocks of two threads, what a thread
\* reads with current_name_stack() and current() is determined by the
\* blocks that thread itself has entered and not yet exited.
C22_ThreadsDoNotInterfere ==
  \A t \in Threads :
    ret.observed[t].read =>
      LET own == ContextOfBlocks(call[t])
      IN /\ ret.observed[t].name_stack = own.name_stack
         /\ ret.observed[t].source_info.name_stack = own.name_stack
         /\ ret.observed[t].source_info.traceback =
              IF own.traceback = NoTraceback THEN "here" ELSE own.traceback

\* Thread 1 reads inside extend_name_stack within user_context while
\* thread 2 is inside a set_name_stack block that it has read in.
C22_Witness ==
  /\ Len(call[1]) = 2
  /\ call[1][1].manager = "user_context" /\ call[1][1].c = "tb_user"
  /\ call[1][2].manager = "extend_name_stack"
  /\ Len(call[2]) = 1
  /\ call[2][1].manager = "set_name_stack"
  /\ ret.observed[1].read /\ ret.observed[2].read
  /\ ret.observed[1].name_stack # ret.observed[2].name_stack
  /\ ret.observed[1].source_info.traceback = "tb_user"
  /\ ret.observed[2].source_info.traceback = "here"

(***************************************************************************)
(* Specification SpecX64: enable_x64() and disable_x64() blocks, a jitted  *)
(* function returning jnp.array(np.float64(0)) and an unjitted             *)
(* jnp.array(np.int64(0)), in two threads (tests/x64_context_test.py).     *)
(* call[t] is the nest of blocks thread t is in; ret holds the             *)
(* jax_enable_x64 flag, each thread's override with the values saved by    *)
(* its open blocks, the compilation cache of the jitted function and the   *)
(* dtypes each thread got last.                                            *)
(***************************************************************************)

\* A plausible slip: the override is stored once for all threads.
x64_state_shared(thread) == 1

\* The override set by a block belongs to the thread that entered it.
x64_state(thread) == thread

\* config.x64_enabled as thread reads it: its override, or the flag.
x64_enabled(flag, override, thread) ==
  IF override[x64_state(thread)] = "unset" THEN flag
  ELSE override[x64_state(thread)] = "enable_x64"

\* A plausible slip: the compilation cache of a jitted function has one
\* entry whatever the mode.
jit_cache_key_modeless(x64) == "compiled"

\* The mode is part of the key of a jitted function's compilation cache.
jit_cache_key(x64) == IF x64 THEN "compiled_x64" ELSE "compiled_x32"

\* The mode the compilation used for a call was made under: the one cached
\* under the key if there is one, else a new one made under the caller's
\* mode.
CompiledUnder(cache, x64) ==
  IF jit_cache_key(x64) \in DOMAIN cache THEN cache[jit_cache_key(x64)]
  ELSE x64

\* jnp.array(np.float64(0)).dtype and jnp.array(np.int64(0)).dtype
FloatDtypeUnder(x64) == IF x64 THEN "float64" ELSE "float32"
IntDtypeUnder(x64) == IF x64 THEN "int64" ELSE "int32"

X64Init ==
  /\ pc = [t \in Threads |-> "body"]
  /\ call = [t \in Threads |-> <<>>]
  /\ \E flag \in BOOLEAN :
       ret = [jax_enable_x64 |-> flag,
              override |-> [t \in Threads |-> "unset"],
              prev |-> [t \in Threads |-> <<>>],
              cache |-> <<>>,
              func_dtype |-> [t \in Threads |-> "none"],
              array_dtype |-> [t \in Threads |-> "none"]]

\* with enable_x64(): / with disable_x64():
EnterX64Block ==
  \E t \in Threads, block \in {"enable_x64", "disable_x64"} :
    /\ Len(call[t]) < MaxNesting
    /\ call' = [call EXCEPT ![t] = Append(@, block)]
    /\ ret' = [ret EXCEPT
         !.prev[t] = Append(@, ret.override[x64_state(t)]),
         !.override[x64_state(t)] = block,
         !.func_dtype[t] = "none",
         !.array_dtype[t] = "none"]
    /\ UNCHANGED pc

\* The block exits: the override it found is put back.
ExitX64Block ==
  \E t \in Threads :
    /\ Len(call[t]) > 0
    /\ LET depth == Len(call[t])
       IN /\ ret' = [ret EXCEPT
               !.override[x64_state(t)] = ret.prev[t][depth],
               !.prev[t] = SubSeq(@, 1, depth - 1),
               !.func_dtype[t] = "none",
               !.array_dtype[t] = "none"]
          /\ call' = [call EXCEPT ![t] = SubSeq(@, 1, depth - 1)]
    /\ UNCHANGED pc

\* func().dtype for func = jit(lambda: jnp.array(np.float64(0))): compiled
\* on the first call under a key, reused afterwards.
CallJitted ==
  \E t \in Threads :
    /\ ret.func_dtype[t] = "none"
    /\ LET x64 == x64_enabled(ret.jax_enable_x64, ret.override, t)
           compiled == CompiledUnder(ret.cache, x64)
       IN ret' = [ret EXCEPT
            !.cache = [k \in DOMAIN ret.cache \cup {jit_cache_key(x64)} |->
                         IF k = jit_cache_key(x64) THEN compiled
                         ELSE ret.cache[k]],
            !.func_dtype[t] = FloatDtypeUnder(compiled)]
    /\ UNCHANGED <<pc, call>>

\* jnp.array(np.int64(0)).dtype
MakeArray ==
  \E t \in Threads :
    /\ ret.array_dtype[t] = "none"
    /\ ret' = [ret EXCEPT !.array_dtype[t] =
         IntDtypeUnder(x64_enabled(ret.jax_enable_x64, ret.override, t))]
    /\ UNCHANGED <<pc, call>>

X64Next == EnterX64Block \/ ExitX64Block \/ CallJitted \/ MakeArray

SpecX64 == X64Init /\ [][X64Next]_vars

\* The mode a nest of blocks calls for: that of the innermost block, or the
\* flag outside every block.
ModeOfBlocks(blocks) ==
  IF blocks = <<>> THEN ret.jax_enable_x64
  ELSE blocks[Len(blocks)] = "enable_x64"

LoweringRule(fn, expand_padding) == [fn |-> fn, expand_padding |-> expand_padding]
NoRule == LoweringRule("none", FALSE)

\* A plausible slip: the cpu registration of select_and_scatter_add_p is
\* missing.
ModuleRegistrations_without_cpu ==
  <<[prim |-> "select_and_scatter_add_p", platform |-> "None",
     rule |-> LoweringRule("_select_and_scatter_add_impl", FALSE)],
    [prim |-> "select_and_scatter_add_p", platform |-> "None",
     rule |-> LoweringRule("_select_and_scatter_add_impl", FALSE)],
    [prim |-> "select_and_scatter_add_p", platform |-> "gpu",
     rule |-> LoweringRule("_select_and_scatter_add_impl", TRUE)],
    [prim |-> "select_and_gather_add_p", platform |-> "None",
     rule |-> LoweringRule("_select_and_gather_add_using_variadic_reducewindow", FALSE)],
    [prim |-> "select_and_gather_add_p", platform |-> "gpu",
     rule |-> LoweringRule("_select_and_gather_add_lowering", FALSE)]>>

\* The mlir.register_lowering statements for the two primitives, in module
\* order.
ModuleRegistrations ==
  <<[prim |-> "select_and_scatter_add_p", platform |-> "None",
     rule |-> LoweringRule("_select_and_scatter_add_impl", FALSE)],
    [prim |-> "select_and_scatter_add_p", platform |-> "cpu",
     rule |-> LoweringRule("_select_and_scatter_add_impl", TRUE)],
    [prim |-> "select_and_scatter_add_p", platform |-> "gpu",
     rule |-> LoweringRule("_select_and_scatter_add_impl", TRUE)],
    [prim |-> "select_and_gather_add_p", platform |-> "None",
     rule |-> LoweringRule("_select_and_gather_add_using_variadic_reducewindow", FALSE)],
    [prim |-> "select_and_gather_add_p", platform |-> "gpu",
     rule |-> LoweringRule("_select_and_gather_add_lowering", FALSE)]>>

\* The value of pc once every registration has run.
AllRegistered == Len(ModuleRegistrations) + 1

RegisteredPrims == {"select_and_scatter_add_p", "select_and_gather_add_p"}
TargetPlatforms == Platforms \cup {"iree"}

\* mlir.register_lowering(prim, rule, platform=None): without a platform the
\* rule becomes the primitive's default, with one it is entered for that
\* platform only.
register_lowering(registry, prim, rule, platform) ==
  IF platform = "None"
  THEN [registry EXCEPT !.default[prim] = rule]
  ELSE [registry EXCEPT !.specific[<<platform, prim>>] = rule]

\* The rule used to lower prim for platform: the platform's own, else the
\* default.
lowering_rule_for(registry, prim, platform) ==
  IF registry.specific[<<platform, prim>>] # NoRule
  THEN registry.specific[<<platform, prim>>]
  ELSE registry.default[prim]

RegisterCalls ==
  [prim : RegisteredPrims, platform : TargetPlatforms,
   operand : {ExampleOperand, Array("float", <<PosInf, PosOne, PosInf>>)},
   select_prim : {"ge_p", "le_p"},
   window_dimensions : {<<w>> : w \in 1..MaxWindow},
   window_strides : {<<st>> : st \in ReduceStrides},
   padding : {<<<<0, 0>>>>, <<<<1, 0>>>>},
   base_dilation : {<<1>>}, window_dilation : {<<1>>},
   xla_order : XlaOrders]

RegisterInit ==
  /\ pc = 1
  /\ call \in RegisterCalls
  /\ ret = [registry |-> [default |-> [p \in RegisteredPrims |-> NoRule],
                          specific |-> [k \in TargetPlatforms \X RegisteredPrims |-> NoRule]],
            chosen |-> NoRule, out |-> NoResult]

\* The next mlir.register_lowering statement of the module.
RunRegistration ==
  /\ pc \in 1..Len(ModuleRegistrations)
  /\ LET r == ModuleRegistrations[pc]
     IN ret' = [ret EXCEPT !.registry =
                  register_lowering(ret.registry, r.prim, r.rule, r.platform)]
  /\ pc' = pc + 1
  /\ UNCHANGED call

\* The rule, applied to the invocation.
ApplyRule(rule) ==
  IF rule.fn = "_select_and_scatter_add_impl"
  THEN _select_and_scatter_add_impl(SourceFor(call), call.operand,
         call.select_prim, call.window_dimensions, call.window_strides,
         call.padding, rule.expand_padding)
  ELSE LET tangents == TangentsFor(Len(call.operand.data))
           shape == _select_and_gather_add_shape_rule(tangents, call.operand,
                      call.window_dimensions, call.window_strides,
                      call.padding, call.base_dilation, call.window_dilation)
       IN IF ~IsOk(shape) THEN shape
          ELSE IF rule.fn = "_select_and_gather_add_lowering"
          THEN Ok(_select_and_gather_add_lowering(shape.val, tangents,
                    call.operand, call.select_prim, call.window_dimensions,
                    call.window_strides, call.padding, call.base_dilation,
                    call.window_dilation))
          ELSE _select_and_gather_add_using_variadic_reducewindow(tangents,
                 call.operand, call.select_prim, call.window_dimensions,
                 call.window_strides, call.padding, call.base_dilation,
                 call.window_dilation)

\* The invocation is lowered for its target platform.
LowerForPlatform ==
  /\ pc = AllRegistered
  /\ LET rule == lowering_rule_for(ret.registry, call.prim, call.platform)
     IN ret' = [ret EXCEPT !.chosen = rule, !.out = ApplyRule(rule)]
  /\ pc' = AllRegistered + 1
  /\ UNCHANGED call

RegisterNext == RunRegistration \/ LowerForPlatform

SpecRegister == RegisterInit /\ [][RegisterNext]_vars

\* The lowering C25 names for a primitive on a platform.
ClaimedRule(prim, platform) ==
  IF prim = "select_and_scatter_add_p"
  THEN LoweringRule("_select_and_scatter_add_impl", platform \in {"cpu", "gpu"})
  ELSE IF platform = "gpu"
  THEN LoweringRule("_select_and_gather_add_lowering", FALSE)
  ELSE LoweringRule("_select_and_gather_add_using_variadic_reducewindow", FALSE)

\* C25: after all registrations have run in order, select_and_scatter_add
\* is lowered with expand_padding=True on cpu and gpu and with direct
\* padding on every other platform, select_and_gather_add with the packed
\* lowering on gpu and the two-output reduce_window lowering on every other
\* platform; a later platform-specific registration never replaces the
\* default for other platforms.
C25_LoweringPerPlatform ==
  /\ pc >= AllRegistered =>
       \A prim \in RegisteredPrims, platform \in TargetPlatforms :
         lowering_rule_for(ret.registry, prim, platform)
           = ClaimedRule(prim, platform)
  /\ pc = AllRegistered + 1 =>
       /\ ret.chosen = ClaimedRule(call.prim, call.platform)
       /\ ret.out = ApplyRule(ClaimedRule(call.prim, call.platform))
       /\ ret.out =
            IF call.prim = "select_and_scatter_add_p"
            THEN _select_and_scatter_add(SourceFor(call), call.operand,
                   call.select_prim, call.window_dimensions,
                   call.window_strides, call.padding)
            ELSE _select_and_gather_add(TangentsFor(Len(call.operand.data)),
                   call.operand, call.select_prim, call.window_dimensions,
                   call.window_strides, call.padding, call.base_dilation,
                   call.window_dilation)
  /\ \A prim \in RegisteredPrims :
       ret.registry.default[prim] # NoRule =>
         \A platform \in {"tpu", "iree"} :
           lowering_rule_for(ret.registry, prim, platform)
             = ClaimedRule(prim, platform)

\* select_and_scatter_add lowered for cpu on an operand holding the select
\* identity with padding: the expanded-padding strategy was chosen.
C25_Witness ==
  /\ pc = AllRegistered + 1
  /\ call.prim = "select_and_scatter_add_p"
  /\ call.platform = "cpu"
  /\ call.padding = <<<<1, 0>>>>
  /\ call.window_dimensions = <<2>>
  /\ ret.chosen = LoweringRule("_select_and_scatter_add_impl", TRUE)
  /\ IsOk(ret.out)
  /\ ret.registry.default["select_and_scatter_add_p"]
       = LoweringRule("_select_and_scatter_add_impl", FALSE)


(***************************************************************************)
(* source_info_util: tracebacks, user frames and the exception handler of  *)
(* user_context. A file name is the sequence of its pieces, so that        *)
(* str.startswith is "is a prefix of" and str.endswith("_test.py") looks   *)
(* at the last piece.                                                      *)
(***************************************************************************)
JaxDir == <<"/site", "/jax">>
JaxCoreFile == <<"/site", "/jax", "/core", ".py">>
JaxTestFile == <<"/site", "/jax", "/lax", "_test.py">>
LibFile == <<"/site", "/flax", "/nn", ".py">>
UserFile == <<"/home", "/train", ".py">>

startswith(filename, p) ==
  /\ Len(p) <= Len(filename)
  /\ SubSeq(filename, 1, Len(p)) = p
endswith_test_py(filename) ==
  /\ Len(filename) > 0
  /\ filename[Len(filename)] = "_test.py"

Code(co_filename, co_name, line) ==
  [co_filename |-> co_filename, co_name |-> co_name, line |-> line]

\* Traceback.raw_frames(): the frames of a traceback, innermost first.
raw_frames(traceback) ==
  CASE traceback = "tb_user" ->
         <<Code(JaxCoreFile, "bind", 1), Code(UserFile, "train", 2)>>
    [] traceback = "tb_other" ->
         <<Code(JaxCoreFile, "bind", 1), Code(LibFile, "apply", 2),
           Code(UserFile, "main", 3)>>
    [] traceback = "tb_internal" ->
         <<Code(JaxCoreFile, "bind", 1)>>
    [] traceback = "tb_test" ->
         <<Code(JaxCoreFile, "bind", 1), Code(JaxTestFile, "test_op", 2)>>
    [] OTHER -> <<>>

\* traceback_util.filter_traceback(c.as_python_traceback()): the frames
\* outside the jax source tree; nothing left is None, which is falsy.
filter_traceback(c) ==
  LET frames == raw_frames(c)
      keep[i \in 0..Len(frames)] ==
        IF i = 0 THEN <<>>
        ELSE IF startswith(frames[i].co_filename, JaxDir)
        THEN keep[i - 1]
        ELSE Append(keep[i - 1], frames[i])
  IN keep[Len(frames)]

\* An exception: its class and its __cause__ chain, nearest cause first.
JaxStackTraceBeforeTransformation(tb) ==
  [type |-> "JaxStackTraceBeforeTransformation", tb |-> tb]
Cause(type) == [type |-> type, tb |-> <<>>]
Raised(type, cause) == [type |-> type, cause |-> cause]
NoException == Raised("None", <<>>)

\* isinstance(e, Exception): KeyboardInterrupt is a BaseException only.
IsException(e) == e.type # "KeyboardInterrupt"

has_user_context(e) ==
  \/ e.type = "JaxStackTraceBeforeTransformation"
  \/ \E i \in 1..Len(e.cause) :
       e.cause[i].type = "JaxStackTraceBeforeTransformation"

\* A plausible slip: the handler does not look for an attached trace.
user_context_except_unguarded(c, e) ==
  IF ~IsException(e) THEN e
  ELSE IF c = NoTraceback THEN e
  ELSE LET filtered_tb == filter_traceback(c)
       IN IF Len(filtered_tb) > 0
          THEN [e EXCEPT !.cause =
                  <<JaxStackTraceBeforeTransformation(filtered_tb)>> \o @]
          ELSE e

\* The except clause of user_context(c): the exception that leaves the
\* block. exp.__cause__ = e.__cause__ and e.__cause__ = exp put exp at the
\* head of the chain.
user_context_except(c, e) ==
  IF ~IsException(e) THEN e
  ELSE IF c = NoTraceback \/ has_user_context(e) THEN e
  ELSE LET filtered_tb == filter_traceback(c)
       IN IF Len(filtered_tb) > 0
          THEN [e EXCEPT !.cause =
                  <<JaxStackTraceBeforeTransformation(filtered_tb)>> \o @]
          ELSE e

\* The exception that leaves a block of any manager; only user_context has
\* an except clause.
ExceptionLeaving(block, e) ==
  IF block.manager = "user_context"
  THEN user_context_except(block.c, e)
  ELSE e

\* A plausible slip: the assignment follows the block instead of standing
\* in a finally clause.
RestoredContext_on_success(prev_context, context, raised) ==
  IF raised THEN context ELSE prev_context

\* The finally clause of every manager: the context after the block.
RestoredContext(prev_context, context, raised) == prev_context

(***************************************************************************)
(* Specification SpecContext: one thread enters nested blocks of the five  *)
(* managers; a body ends normally or raises, and a raised exception leaves *)
(* the open blocks one by one. call is the nest of open blocks; ret holds  *)
(* the context, every open block's prev_context local, the exception in    *)
(* flight, and history: entry (the context each open block was entered     *)
(* in), exited (the last block exit), e0 and nest (the exception and the   *)
(* nest when it was raised), attached (the depths of the blocks that       *)
(* changed the exception).                                                 *)
(***************************************************************************)
ContextBlocks ==
  Blocks \cup
  {Block("user_context", c, "", NoNameStack) :
     c \in {"tb_other", "tb_internal", "tb_test"}}

Raisables ==
  {Raised(type, cause) :
     type \in {"ValueError", "KeyboardInterrupt"},
     cause \in {<<>>, <<Cause("KeyError")>>,
                <<Cause("KeyError"),
                  JaxStackTraceBeforeTransformation(filter_traceback("tb_test"))>>}}

NotExited == [happened |-> FALSE, entry |-> new_source_info, raised |-> FALSE]

ContextInit ==
  /\ pc = "body"
  /\ call = <<>>
  /\ ret = [context |-> new_source_info, prev_context |-> <<>>,
            e |-> NoException, entry |-> <<>>, exited |-> NotExited,
            e0 |-> NoException, nest |-> <<>>, attached |-> <<>>]

\* with manager(...): the manager saves the context and installs its own.
WithBlock ==
  \E block \in ContextBlocks :
    /\ pc = "body"
    /\ Len(call) < MaxNesting
    /\ call' = Append(call, block)
    /\ ret' = [ret EXCEPT
         !.prev_context = Append(@, ret.context),
         !.context = NewContext(block, ret.context),
         !.entry = Append(@, ret.context),
         !.exited = NotExited]
    /\ UNCHANGED pc

\* The body of the innermost block ends normally.
LeaveBlock ==
  /\ pc = "body"
  /\ Len(call) > 0
  /\ LET depth == Len(call)
     IN /\ ret' = [ret EXCEPT
             !.context = RestoredContext(ret.prev_context[depth],
                                         ret.context, FALSE),
             !.prev_context = SubSeq(@, 1, depth - 1),
             !.entry = SubSeq(@, 1, depth - 1),
             !.exited = [happened |-> TRUE, entry |-> ret.entry[depth],
                         raised |-> FALSE]]
        /\ call' = SubSeq(call, 1, depth - 1)
  /\ UNCHANGED pc

\* The body of the innermost block raises.
RaiseInBody ==
  \E e \in Raisables :
    /\ pc = "body"
    /\ Len(call) > 0
    /\ ret' = [ret EXCEPT !.e = e, !.e0 = e, !.nest = call,
                          !.attached = <<>>, !.exited = NotExited]
    /\ pc' = "raising"
    /\ UNCHANGED call

\* The exception leaves the innermost open block: its except clause, if it
\* has one, then its finally clause.
PropagateOut ==
  /\ pc = "raising"
  /\ Len(call) > 0
  /\ LET depth == Len(call)
         e == ExceptionLeaving(call[depth], ret.e)
     IN /\ ret' = [ret EXCEPT
             !.e = e,
             !.attached = IF e = ret.e THEN @ ELSE Append(@, depth),
             !.context = RestoredContext(ret.prev_context[depth],
                                         ret.context, TRUE),
             !.prev_context = SubSeq(@, 1, depth - 1),
             !.entry = SubSeq(@, 1, depth - 1),
             !.exited = [happened |-> TRUE, entry |-> ret.entry[depth],
                         raised |-> TRUE]]
        /\ call' = SubSeq(call, 1, depth - 1)
  /\ UNCHANGED pc

\* The exception has left the outermost block and is caught by the caller.
CatchOutside ==
  /\ pc = "raising"
  /\ Len(call) = 0
  /\ pc' = "body"
  /\ ret' = [ret EXCEPT !.e = NoException, !.e0 = NoException,
                        !.nest = <<>>, !.attached = <<>>,
                        !.exited = NotExited]
  /\ UNCHANGED call

ContextNext ==
  WithBlock \/ LeaveBlock \/ RaiseInBody \/ PropagateOut \/ CatchOutside

SpecContext == ContextInit /\ [][ContextNext]_vars

\* C26: when a block of any of the five managers exits, normally or by an
\* exception, the context is the one the block was entered in; once every
\* block has exited, the context is the one before the outermost block.
C26_ContextRestored ==
  /\ ret.exited.happened => ret.context = ret.exited.entry
  /\ Len(call) = 0 => ret.context = new_source_info

\* An exception has left a transform_name_stack block entered inside a
\* user_context block, and the context is again the one user_context
\* installed, which differs from the fresh one.
C26_Witness ==
  /\ pc = "raising"
  /\ Len(call) = 1
  /\ call[1].manager = "user_context" /\ call[1].c = "tb_user"
  /\ Len(ret.nest) = 2
  /\ ret.nest[2].manager = "transform_name_stack"
  /\ ret.exited.happened /\ ret.exited.raised
  /\ ret.context = ret.exited.entry
  /\ ret.context # new_source_info
  /\ ret.context # NewContext(ret.nest[2], ret.exited.entry)


\* The open-at-raise blocks that the exception has already left, and those
\* among them that attach a trace when reached by a plain exception: a
\* user_context block with a traceback whose filtered form is non-empty.
BlocksLeft == (Len(call) + 1)..Len(ret.nest)
AttachingBlocks ==
  {d \in BlocksLeft :
     /\ ret.nest[d].manager = "user_context"
     /\ ret.nest[d].c # NoTraceback
     /\ Len(filter_traceback(ret.nest[d].c)) > 0}
AttachedTraces(e) ==
  Cardinality({i \in 1..Len(e.cause) :
                 e.cause[i].type = "JaxStackTraceBeforeTransformation"})

\* C28: while an exception propagates out through nested blocks, at most
\* one JaxStackTraceBeforeTransformation is attached to its __cause__
\* chain; it is attached by the innermost user_context block whose filtered
\* traceback is non-empty, every enclosing block re-raises the exception
\* unchanged, the original __cause__ chain stays behind the attached trace,
\* and a block entered with traceback None never attaches one.
C28_AtMostOneTraceAttached ==
  pc = "raising" =>
    /\ Len(ret.attached) <= 1
    /\ AttachedTraces(ret.e) = AttachedTraces(ret.e0) + Len(ret.attached)
    /\ ret.e.type = ret.e0.type
    /\ Len(ret.attached) = 0 => ret.e = ret.e0
    /\ Len(ret.attached) = 1 =>
         LET d == ret.attached[1]
         IN /\ d \in AttachingBlocks
            /\ \A other \in AttachingBlocks : other <= d
            /\ ret.nest[d].c # NoTraceback
            /\ ret.e.cause =
                 <<JaxStackTraceBeforeTransformation(
                     filter_traceback(ret.nest[d].c))>> \o ret.e0.cause
    /\ (IsException(ret.e0) /\ ~has_user_context(ret.e0)
          /\ AttachingBlocks # {}) => Len(ret.attached) = 1

\* A ValueError with a KeyError cause has left two user_context blocks that
\* both have a non-empty filtered traceback: the inner one attached its
\* trace, the outer one changed nothing, the KeyError is still in the chain.
C28_Witness ==
  /\ pc = "raising"
  /\ Len(call) = 0
  /\ Len(ret.nest) = 2
  /\ ret.nest[1].manager = "user_context" /\ ret.nest[1].c = "tb_user"
  /\ ret.nest[2].manager = "user_context" /\ ret.nest[2].c = "tb_other"
  /\ ret.e0 = Raised("ValueError", <<Cause("KeyError")>>)
  /\ ret.attached = <<2>>
  /\ ret.e.cause =
       <<JaxStackTraceBeforeTransformation(filter_traceback("tb_other")),
         Cause("KeyError")>>


(***************************************************************************)
(* source_info_util: user frames and the memoized user_frame.              *)
(***************************************************************************)
Frame(file_name, function_name, line_num) ==
  [file_name |-> file_name, function_name |-> function_name,
   line_num |-> line_num]
NoFrame == Frame(<<>>, "None", 0)

\* is_user_filename, reading the module's list _exclude_paths.
is_user_filename(filename, exclude_paths) ==
  \/ endswith_test_py(filename)
  \/ ~\E i \in 1..Len(exclude_paths) : startswith(filename, exclude_paths[i])

_raw_frame_to_frame(code) == Frame(code.co_filename, code.co_name, code.line)

\* user_frames(source_info): the frames of user files, innermost first.
user_frames(source_info, exclude_paths) ==
  LET code == IF source_info.traceback # NoTraceback
              THEN raw_frames(source_info.traceback) ELSE <<>>
      frames[i \in 0..Len(code)] ==
        IF i = 0 THEN <<>>
        ELSE IF is_user_filename(code[i].co_filename, exclude_paths)
        THEN Append(frames[i - 1], _raw_frame_to_frame(code[i]))
        ELSE frames[i - 1]
  IN frames[Len(code)]

\* next(user_frames(source_info), None).
next_user_frame(source_info, exclude_paths) ==
  LET frames == user_frames(source_info, exclude_paths)
  IN IF Len(frames) > 0 THEN frames[1] ELSE NoFrame

\* register_exclusion(path).
register_exclusion(exclude_paths, path) == Append(exclude_paths, path)

\* @functools.lru_cache(maxsize=64) around user_frame: a call with an
\* argument seen before returns the stored result; otherwise the body runs
\* and its result is stored. Fewer than 64 source infos occur, so no entry
\* is ever evicted.
NotCached == [cached |-> FALSE, frame |-> NoFrame]
user_frame(cache, source_info, exclude_paths) ==
  IF cache[source_info].cached
  THEN [result |-> cache[source_info].frame, cache |-> cache]
  ELSE LET frame == next_user_frame(source_info, exclude_paths)
       IN [result |-> frame,
           cache |-> [cache EXCEPT ![source_info] =
                        [cached |-> TRUE, frame |-> frame]]]

(***************************************************************************)
(* Specification SpecFrames: register_exclusion and user_frame are called  *)
(* in any order. call is the last call; ret holds _exclude_paths, the      *)
(* cache of user_frame and the last result.                                *)
(***************************************************************************)
MaxExclusions == 2
ExclusionPaths == {<<"/home">>, <<"/site", "/flax">>}
FrameSourceInfos ==
  {SourceInfo(traceback, name_stack) :
     traceback \in {NoTraceback, "tb_user", "tb_other", "tb_test"},
     name_stack \in {<<>>}}
  \cup {SourceInfo("tb_user", <<Scope("a")>>)}

FramesInit ==
  /\ pc = "imported"
  /\ call = [fn |-> "None", path |-> <<>>, source_info |-> new_source_info]
  /\ ret = [exclude_paths |-> <<JaxDir>>,
            cache |-> [s \in FrameSourceInfos |-> NotCached],
            result |-> NoFrame]

RegisterExclusion ==
  \E path \in ExclusionPaths :
    /\ Len(ret.exclude_paths) < 1 + MaxExclusions
    /\ call' = [fn |-> "register_exclusion", path |-> path,
                source_info |-> new_source_info]
    /\ ret' = [ret EXCEPT
         !.exclude_paths = register_exclusion(@, path),
         !.result = NoFrame]
    /\ pc' = "registered"

CallUserFrame ==
  \E source_info \in FrameSourceInfos :
    /\ call' = [fn |-> "user_frame", path |-> <<>>,
                source_info |-> source_info]
    /\ LET r == user_frame(ret.cache, source_info, ret.exclude_paths)
       IN ret' = [ret EXCEPT !.cache = r.cache, !.result = r.result]
    /\ pc' = "looked_up"

FramesNext == RegisterExclusion \/ CallUserFrame

SpecFrames == FramesInit /\ [][FramesNext]_vars

\* C27: after any sequence of register_exclusion and user_frame calls,
\* user_frame(source_info) returns next(user_frames(source_info), None)
\* evaluated against the current _exclude_paths.
C27_AsStated ==
  pc = "looked_up" =>
    ret.result = next_user_frame(call.source_info, ret.exclude_paths)


\* What does hold: the result is next(user_frames(source_info), None)
\* against the exclusion list as it was at some earlier time, namely at the
\* first call with this argument.
C27_ResultOfSomeEarlierList ==
  pc = "looked_up" =>
    \E n \in 1..Len(ret.exclude_paths) :
      ret.result = next_user_frame(call.source_info,
                                   SubSeq(ret.exclude_paths, 1, n))


(***************************************************************************)
(* reduce_window: the flattening of its operand and init_value arguments   *)
(* and the three checks that follow it.                                    *)
(***************************************************************************)
\* Pytrees: a leaf holding an array, or a container (tuple, list, None)
\* with its children.
Leaf(value) == [node |-> "leaf", value |-> value, children |-> <<>>]
Node(node, children) == [node |-> node, value |-> "", children |-> children]

\* tree_util.tree_flatten(tree)[0]: the leaves, left to right.
RECURSIVE tree_leaves(_)
tree_leaves(tree) ==
  IF tree.node = "leaf" THEN <<tree.value>>
  ELSE LET leaves[i \in 0..Len(tree.children)] ==
             IF i = 0 THEN <<>>
             ELSE leaves[i - 1] \o tree_leaves(tree.children[i])
       IN leaves[Len(tree.children)]

\* tree_util.tree_flatten(tree)[1]: the treedef, the tree with every leaf
\* replaced by a placeholder.
RECURSIVE tree_structure(_)
tree_structure(tree) ==
  IF tree.node = "leaf" THEN Leaf("*")
  ELSE Node(tree.node,
            [i \in 1..Len(tree.children) |-> tree_structure(tree.children[i])])

\* A plausible slip: the count check stands before the tree check.
reduce_window_checks_count_first(operand, init_value) ==
  LET flat_operands == tree_leaves(operand)
      operand_tree == tree_structure(operand)
      flat_init_values == tree_leaves(init_value)
      init_value_tree == tree_structure(init_value)
      raise(message) ==
        [raised |-> "ValueError", message |-> message,
         flat_operands |-> flat_operands,
         flat_init_values |-> flat_init_values]
  IN IF Len(flat_operands) # Len(flat_init_values)
     THEN raise("Must have same total number of operands as init_values")
     ELSE IF operand_tree # init_value_tree
     THEN raise("Operands must have the same tree structure as init_values")
     ELSE IF Len(flat_operands) = 0
     THEN raise("reduce_window must have at least one operand.")
     ELSE [raised |-> "none", message |-> "",
           flat_operands |-> flat_operands,
           flat_init_values |-> flat_init_values]

\* The head of reduce_window: both arguments are flattened, then the three
\* checks run in this order.
reduce_window_checks(operand, init_value) ==
  LET flat_operands == tree_leaves(operand)
      operand_tree == tree_structure(operand)
      flat_init_values == tree_leaves(init_value)
      init_value_tree == tree_structure(init_value)
      raise(message) ==
        [raised |-> "ValueError", message |-> message,
         flat_operands |-> flat_operands,
         flat_init_values |-> flat_init_values]
  IN IF operand_tree # init_value_tree
     THEN raise("Operands must have the same tree structure as init_values")
     ELSE IF Len(flat_operands) = 0
     THEN raise("reduce_window must have at least one operand.")
     ELSE IF Len(flat_operands) # Len(flat_init_values)
     THEN raise("Must have same total number of operands as init_values")
     ELSE [raised |-> "none", message |-> "",
           flat_operands |-> flat_operands,
           flat_init_values |-> flat_init_values]

(***************************************************************************)
(* Specification SpecChecks: one call of reduce_window with any pair of    *)
(* pytrees as operand and init_value, up to the end of its checks.         *)
(***************************************************************************)
MaxChildren == 2
FlatTrees(values) ==
  {Leaf(v) : v \in values} \cup {Node("None", <<>>)}
  \cup UNION {{Node(kind, children) :
                 kind \in {"tuple", "list"},
                 children \in [1..n -> {Leaf(v) : v \in values}]} :
              n \in 0..MaxChildren}
PyTrees(values) ==
  FlatTrees(values)
  \cup UNION {{Node("tuple", <<inner, Leaf(v)>>) :
                 inner \in {Node("tuple", <<>>), Node("None", <<>>),
                            Node("tuple", <<Leaf(v)>>)}} :
              v \in values}

ChecksInit ==
  /\ pc = "call"
  /\ \E operand \in PyTrees({"x", "y"}), init_value \in PyTrees({"0"}) :
       call = [operand |-> operand, init_value |-> init_value]
  /\ ret = [raised |-> "pending", message |-> "", flat_operands |-> <<>>,
            flat_init_values |-> <<>>]

CheckOperands ==
  /\ pc = "call"
  /\ ret' = reduce_window_checks(call.operand, call.init_value)
  /\ pc' = "checked"
  /\ UNCHANGED call

ChecksNext == CheckOperands

SpecChecks == ChecksInit /\ [][ChecksNext]_vars

\* C29: reduce_window never raises 'Must have same total number of operands
\* as init_values': when the numbers of flattened operands and init values
\* differ, the tree structures differ and the tree-structure error is
\* raised; the checks run in the order tree structure, no operand, count.
C29_CountErrorUnreachable ==
  pc = "checked" =>
    LET trees_differ ==
          tree_structure(call.operand) # tree_structure(call.init_value)
    IN /\ ret.message # "Must have same total number of operands as init_values"
       /\ Len(ret.flat_operands) # Len(ret.flat_init_values) =>
            /\ trees_differ
            /\ ret.message =
                 "Operands must have the same tree structure as init_values"
       /\ trees_differ =>
            ret.message =
              "Operands must have the same tree structure as init_values"
       /\ (~trees_differ /\ Len(ret.flat_operands) = 0) =>
            ret.message = "reduce_window must have at least one operand."
       /\ (~trees_differ /\ Len(ret.flat_operands) > 0) =>
            /\ ret.raised = "none"
            /\ Len(ret.flat_operands) = Len(ret.flat_init_values)

\* Two operands in a tuple with a single init value in a tuple: the counts
\* 2 and 1 differ and the tree-structure error is the one raised.
C29_Witness ==
  /\ pc = "checked"
  /\ call.operand = Node("tuple", <<Leaf("x"), Leaf("y")>>)
  /\ call.init_value = Node("tuple", <<Leaf("0")>>)
  /\ Len(ret.flat_operands) = 2
  /\ Len(ret.flat_init_values) = 1
  /\ ret.raised = "ValueError"
  /\ ret.message = "Operands must have the same tree structure as init_values"


\* The interior-padding configuration and the strided slice of the
\* transpose rule of select_and_gather_add, applied to the tangent ramp,
\* whose elements are all different from the padding value 0.
InteriorConfig == [i \in 1..Len(call.base_dilation) |->
                     <<0, 0, call.base_dilation[i] - 1>>]
PaddedRamp == lax_pad(ret.g, PosZero, InteriorConfig)
SlicedRamp ==
  lax_slice(PaddedRamp.val, [i \in 1..Len(call.base_dilation) |-> 0],
            ShapeOf(PaddedRamp.val), call.base_dilation)

\* C30: with window_dilation all 1 and any base_dilation d >= 1, the
\* transpose rule of select_and_gather_add returns a cotangent of exactly
\* the operand's shape, for every operand extent n >= 0; the strided slice
\* keeps the operand's positions, in order, and drops interior padding only.
C30_TransposeKeepsShape ==
  (pc \in {"transposed", "done"} /\ ~WindowDilated) =>
    /\ IsOk(ret.tangents_ct)
    /\ ShapeOf(ret.tangents_ct.val) = ShapeOf(call.operand)
    /\ ShapeOf(ret.tangents_ct.val) = ShapeOf(ret.g)
    /\ RoutedToScatterAdd
    /\ IsOk(PaddedRamp)
    /\ SlicedRamp = Ok(ret.g)

\* A base dilation of 2 on an operand of three elements: the padded operand
\* has five, the slice drops two, and a cotangent entry reached the operand.
C30_Witness ==
  /\ pc = "transposed"
  /\ call.base_dilation = <<2>>
  /\ call.window_dilation = <<1>>
  /\ Len(call.operand.data) = 3
  /\ Len(PaddedRamp.val.data) = 5
  /\ IsOk(ret.tangents_ct)
  /\ Len(ret.tangents_ct.val.data) = 3
  /\ \E i \in 1..3 : ret.tangents_ct.val.data[i] = PosOne

====
